---------------------------- MODULE Spec2Model ----------------------------
(***************************************************************************)
(* Model of src/arch/linux/network.cc: linux_net_conn_t (a nonblocking     *)
(* connection driven by a poller) and linux_net_listener_t.                *)
(*                                                                         *)
(* The connection is single-threaded but reentrant: its methods call user  *)
(* callbacks, and a callback may call back into the connection or delete   *)
(* it.  The model therefore keeps an explicit call stack.  A step is       *)
(*   - a call made by the user (from the event loop's top level or from    *)
(*     inside a callback), run up to the first loop iteration, callback or *)
(*     return;                                                             *)
(*   - one iteration of a read/write loop (one syscall, whose result is    *)
(*     chosen by the kernel);                                              *)
(*   - the resumption of a frame after the call it made has returned.      *)
(* A failed assert() stops the program (aborted names the assertion); an   *)
(* access to a field of a deleted connection is recorded in uaf.           *)
(***************************************************************************)
EXTENDS Integers, Sequences, FiniteSets, TLC

\* ------------------------------------------------------------------ bounds

\* Length of the byte stream the peer may send.
WireLen == 8
\* A user call into the connection is made from the top level or from inside
\* at most MaxNest nested user callbacks.
MaxNest == 1
\* The user makes at most MaxCalls calls into the connection in one run
\* (readiness events, callbacks' returns and the deletion are not counted).
MaxCalls == 4

Alphabet == <<"A", "B", "C", "D", "E", "F", "G", "H", "I", "J", "K", "L">>
\* The wire byte stream, in order.
Wire == SubSeq(Alphabet, 1, WireLen)

\* Sizes the user passes to read_external and write_external.
ReadSizes == {1, 4}
WriteSizes == {1, 2}

\* Size of one chunk read into the peek buffer.
IO_BUFFER_SIZE == 8

Min(a, b) == IF a < b THEN a ELSE b

\* ------------------------------------------------------------------ state

VARIABLES
    alive,                  \* the connection object exists (not yet deleted)
    registration_thread,    \* -1, or the id (0) of the registering thread
    set_me_true_on_delete,  \* 0 (NULL) or the stack index of the frame whose
                            \* local `deleted` it points to
    read_mode, in_read_buffered_cb, write_mode,
    read_was_shut_down, write_was_shut_down, registered_for_writes,
    peek_buffer,
    external_read_buf,      \* bytes placed into the caller's buffer so far
    external_read_size,     \* bytes still missing
    external_write_size,    \* bytes still to be written
    wire_pos,               \* bytes of Wire handed out by ::read so far
    poll_watch,             \* "none", "watched" or "forgotten"
    poll_mask,              \* interest mask registered with the poller
    fd_closed,              \* number of ::close(sock) calls
    stack,                  \* call stack, innermost frame last
    aborted,                \* "" or the assertion that failed
    uaf,                    \* "" or the place that touched a deleted object
    obs,                    \* observations of the run (history, not program state)
    listener,               \* per listener: the fields of linux_net_listener_t,
                            \* its socket and its place in on_event
    backlog,                \* per port: connections waiting to be accepted
    lobs,                   \* per listener: observations of the run
    table_meta_manager_directory,   \* peer -> manager business card
    table_meta_directory,           \* (peer, table) -> advertised table card
    table_metadata_by_id,           \* table -> reduced metadata (the mirror)
    dobs,                   \* observations of the directory deltas
    find_out,               \* what the latest find() gave its caller
    connected,              \* the peers the mailbox manager is connected to
    op                      \* the metadata client operation in progress

connVars == <<alive, registration_thread, set_me_true_on_delete, read_mode,
              in_read_buffered_cb, write_mode, read_was_shut_down,
              write_was_shut_down, registered_for_writes, peek_buffer,
              external_read_buf, external_read_size, external_write_size,
              wire_pos, poll_watch, poll_mask, fd_closed, stack, aborted, uaf,
              obs>>

listenerVars == <<listener, backlog, lobs>>

directoryVars == <<table_meta_directory, table_metadata_by_id, dobs, find_out>>

clientVars == <<table_meta_manager_directory, connected, op>>

metaVars == <<directoryVars, clientVars>>

\* The whole connection machine as one record, so that the methods can be
\* written as functions from machine to machine and composed as the code
\* composes them.
Cur ==
    [alive |-> alive, registration_thread |-> registration_thread,
     set_me_true_on_delete |-> set_me_true_on_delete, read_mode |-> read_mode,
     in_read_buffered_cb |-> in_read_buffered_cb, write_mode |-> write_mode,
     read_was_shut_down |-> read_was_shut_down,
     write_was_shut_down |-> write_was_shut_down,
     registered_for_writes |-> registered_for_writes,
     peek_buffer |-> peek_buffer, external_read_buf |-> external_read_buf,
     external_read_size |-> external_read_size,
     external_write_size |-> external_write_size, wire_pos |-> wire_pos,
     poll_watch |-> poll_watch, poll_mask |-> poll_mask,
     fd_closed |-> fd_closed, stack |-> stack, aborted |-> aborted,
     uaf |-> uaf, obs |-> obs]

\* What the checks observe of a run.
ObsInit ==
    [calls |-> 0,                \* calls the user has made so far
     consumed |-> <<>>,          \* bytes consumed by accept_buffer and read_external
     read_after_shutdown |-> FALSE,   \* ::read issued with read_was_shut_down
     write_after_shutdown |-> FALSE,  \* ::write issued with write_was_shut_down
     read_syscall_in_op |-> FALSE,    \* ::read issued since the last read was started
     read_drained |-> 0,              \* bytes the last read_external took from
                                      \* the peek buffer
     scenario |-> "start",            \* how far the run has followed the
                                      \* scenario "exact read over buffered
                                      \* residue" ("off": it has left it)
     mask_at_wouldblock |-> {},       \* the interest mask right after the last
                                      \* EAGAIN of a write
     write_saw_wouldblock |-> FALSE,  \* the current write got EAGAIN at least once
     write_changed_mask |-> FALSE,    \* the current write changed the poller's
                                      \* registration (after registering itself)
     poll_forgets |-> 0,              \* forget_resource calls
     poll_misuse |-> FALSE,           \* adjust/forget on a descriptor not watched
     deleted_in_buffered_cb |-> FALSE, \* deleted below on_net_conn_read_buffered
     cb_after_delete |-> FALSE,       \* a callback was invoked after deletion
     on_close_read |-> 0,             \* on_net_conn_close calls to a reader
     on_close_write |-> 0,            \* on_net_conn_close calls to a writer
     on_close_misdirected |-> FALSE,  \* on_net_conn_close went to a callback
                                      \* other than that of the active operation
     completion_after_close |-> FALSE] \* a read (write) completed after the
                                      \* reader (writer) was told of the close

\* The machine after a failed assert(): the process is gone, and of its state
\* only the name of the assertion is kept.
Aborted(what) ==
    [alive |-> FALSE, registration_thread |-> -1, set_me_true_on_delete |-> 0,
     read_mode |-> "none", in_read_buffered_cb |-> FALSE, write_mode |-> "none",
     read_was_shut_down |-> FALSE, write_was_shut_down |-> FALSE,
     registered_for_writes |-> FALSE, peek_buffer |-> <<>>,
     external_read_buf |-> <<>>, external_read_size |-> 0,
     external_write_size |-> 0, wire_pos |-> 0, poll_watch |-> "none",
     poll_mask |-> {}, fd_closed |-> 0, stack |-> <<>>, aborted |-> what,
     uaf |-> "", obs |-> ObsInit]

BecomesRunning(m) ==
    /\ alive' = m.alive
    /\ registration_thread' = m.registration_thread
    /\ set_me_true_on_delete' = m.set_me_true_on_delete
    /\ read_mode' = m.read_mode
    /\ in_read_buffered_cb' = m.in_read_buffered_cb
    /\ write_mode' = m.write_mode
    /\ read_was_shut_down' = m.read_was_shut_down
    /\ write_was_shut_down' = m.write_was_shut_down
    /\ registered_for_writes' = m.registered_for_writes
    /\ peek_buffer' = m.peek_buffer
    /\ external_read_buf' = m.external_read_buf
    /\ external_read_size' = m.external_read_size
    /\ external_write_size' = m.external_write_size
    /\ wire_pos' = m.wire_pos
    /\ poll_watch' = m.poll_watch
    /\ poll_mask' = m.poll_mask
    /\ fd_closed' = m.fd_closed
    /\ stack' = m.stack
    /\ aborted' = m.aborted
    /\ uaf' = m.uaf
    /\ obs' = m.obs
    /\ UNCHANGED <<listenerVars, metaVars>>

Becomes(m) ==
    IF m.aborted # "" THEN BecomesRunning(Aborted(m.aborted)) ELSE BecomesRunning(m)

\* linux_net_conn_t::linux_net_conn_t(fd_t sock)
ConnInit ==
    /\ alive = TRUE
    /\ registration_thread = -1
    /\ set_me_true_on_delete = 0
    /\ read_mode = "none"
    /\ in_read_buffered_cb = FALSE
    /\ write_mode = "none"
    /\ read_was_shut_down = FALSE
    /\ write_was_shut_down = FALSE
    /\ registered_for_writes = FALSE
    /\ peek_buffer = <<>>
    /\ external_read_buf = <<>>
    /\ external_read_size = 0
    /\ external_write_size = 0
    /\ wire_pos = 0
    /\ poll_watch = "none"
    /\ poll_mask = {}
    /\ fd_closed = 0
    /\ stack = <<>>
    /\ aborted = ""
    /\ uaf = ""
    /\ obs = ObsInit

\* ------------------------------------------------------------ call stack

\* A frame of the connection's own code, or (fn = "cb") of a user callback.
Frame(fn, pc) ==
    [fn |-> fn, pc |-> pc,
     deleted |-> FALSE,   \* on_event, see_if_callback_is_satisfied: bool deleted
     prev |-> 0,          \* see_if_callback_is_satisfied: prev_set_me_true_on_delete
     events |-> {},       \* on_event: int events
     offer |-> <<>>,      \* see_if_callback_is_satisfied: the bytes it offered
     accepted |-> FALSE,  \* (observation) accept_buffer was called on this offer
     nested |-> FALSE]    \* (observation) a read was started after that accept,
                          \* before the callback returned

Push(m, f) == [m EXCEPT !.stack = Append(@, f)]
Pop(m) == [m EXCEPT !.stack = SubSeq(@, 1, Len(@) - 1)]
Top(m) == m.stack[Len(m.stack)]
SetTopPc(m, pc) == [m EXCEPT !.stack[Len(m.stack)].pc = pc]

\* assert(...) failed.
Abort(m, what) == [m EXCEPT !.aborted = what]
\* A field of the deleted connection was read or written.
UseAfterFree(m, where) == [m EXCEPT !.uaf = where]

\* Invoking a user callback: control passes to the user.
InvokeCb(m, name) ==
    LET to_reader == name \in {"read_external_cb.on_net_conn_close",
                               "read_buffered_cb.on_net_conn_close"}
        to_writer == name = "write_external_cb.on_net_conn_close"
        active == CASE name = "read_external_cb.on_net_conn_close" ->
                           m.read_mode = "external"
                    [] name = "read_buffered_cb.on_net_conn_close" ->
                           m.read_mode = "buffered"
                    [] name = "write_external_cb.on_net_conn_close" ->
                           m.write_mode = "external"
                    [] OTHER -> TRUE
        late == IF name \in {"on_net_conn_read_external",
                             "on_net_conn_read_buffered"}
                THEN m.obs.on_close_read > 0
                ELSE IF name = "on_net_conn_write_external"
                THEN m.obs.on_close_write > 0
                ELSE FALSE
    IN  Push([m EXCEPT !.obs.cb_after_delete = @ \/ ~m.alive,
                       !.obs.on_close_read =
                            IF to_reader THEN Min(@ + 1, 2) ELSE @,
                       !.obs.on_close_write =
                            IF to_writer THEN Min(@ + 1, 2) ELSE @,
                       !.obs.on_close_misdirected = @ \/ ~active,
                       !.obs.completion_after_close = @ \/ late],
             Frame("cb", name))

CbDepth(s) == Cardinality({i \in 1..Len(s) : s[i].fn = "cb"})

\* ---------------------------------------------------------------- poller

\* queue.watch_resource(sock, mask, this)
watch_resource(m, mask) ==
    [m EXCEPT !.poll_watch = "watched", !.poll_mask = mask]

\* queue.adjust_resource(sock, mask, this)
adjust_resource(m, mask) ==
    [m EXCEPT !.poll_mask = mask,
              !.obs.poll_misuse = @ \/ m.poll_watch # "watched"]

\* queue.forget_resource(sock, this)
forget_resource(m) ==
    [m EXCEPT !.poll_watch = "forgotten", !.poll_mask = {},
              !.obs.poll_forgets = Min(@ + 1, 2),
              !.obs.poll_misuse = @ \/ m.poll_watch # "watched"]

\* linux_net_conn_t::register_with_event_loop
register_with_event_loop(m) ==
    IF m.registration_thread = -1
    THEN watch_resource([m EXCEPT !.registration_thread = 0], {"in"})
    ELSE m

\* ------------------------------------------------------------- shutdown

\* on_shutdown_read telling the writer, not the reader, of the close.
on_shutdown_read_tells_writer(m) ==
    IF m.read_was_shut_down
    THEN Abort(m, "on_shutdown_read: assert(!read_was_shut_down)")
    ELSE
    LET m1 == [m EXCEPT !.read_was_shut_down = TRUE]
        m2 == IF m1.registration_thread # -1
              THEN IF m1.write_was_shut_down
                   THEN forget_resource(m1)
                   ELSE adjust_resource(m1, {"out"})
              ELSE m1
    IN  IF m2.write_mode = "external"
        THEN InvokeCb(m2, "write_external_cb.on_net_conn_close")
        ELSE m2

\* linux_net_conn_t::on_shutdown_read
on_shutdown_read(m) ==
    IF m.read_was_shut_down
    THEN Abort(m, "on_shutdown_read: assert(!read_was_shut_down)")
    ELSE
    LET m1 == [m EXCEPT !.read_was_shut_down = TRUE]
        m2 == IF m1.registration_thread # -1
              THEN IF m1.write_was_shut_down
                   THEN forget_resource(m1)
                   ELSE adjust_resource(m1, {"out"})
              ELSE m1
    IN  CASE m2.read_mode = "none" -> m2
          [] m2.read_mode = "external" ->
                InvokeCb(m2, "read_external_cb.on_net_conn_close")
          [] m2.read_mode = "buffered" ->
                InvokeCb(m2, "read_buffered_cb.on_net_conn_close")

\* linux_net_conn_t::on_shutdown_write
on_shutdown_write(m) ==
    IF m.write_was_shut_down
    THEN Abort(m, "on_shutdown_write: assert(!write_was_shut_down)")
    ELSE
    LET m1 == [m EXCEPT !.write_was_shut_down = TRUE]
        m2 == IF m1.registration_thread # -1
              THEN IF m1.read_was_shut_down
                   THEN forget_resource(m1)
                   ELSE adjust_resource(m1, {"in"})
              ELSE m1
    IN  CASE m2.write_mode = "none" -> m2
          [] m2.write_mode = "external" ->
                InvokeCb(m2, "write_external_cb.on_net_conn_close")

\* linux_net_conn_t::shutdown_read (::shutdown(sock, SHUT_RD) changes nothing
\* the connection keeps)
shutdown_read(m) ==
    IF m.in_read_buffered_cb
    THEN Abort(m, "shutdown_read: assert(!in_read_buffered_cb)")
    ELSE on_shutdown_read(m)

\* linux_net_conn_t::shutdown_write
shutdown_write(m) == on_shutdown_write(m)

\* ------------------------------------------------------------ read path

\* Results of ::read(sock, buf, n): a positive count (bounded by what is left
\* of the stream), 0 (peer closed), or -1 with an errno (EIO stands for every
\* errno the code does not name).
SysResult(res, errno) == [res |-> res, errno |-> errno]
ReadResults(m, n) ==
    {SysResult(k, "") : k \in 0..Min(n, WireLen - m.wire_pos)}
    \cup {SysResult(-1, e) : e \in {"EAGAIN", "ECONNRESET", "EIO"}}

\* Bookkeeping of one ::read call.
NoteRead(m) ==
    [m EXCEPT !.obs.read_syscall_in_op = TRUE,
              !.obs.read_after_shutdown = @ \/ m.read_was_shut_down]

\* (observation) The scenario after read_external(size) was called and after
\* the read was fulfilled.
ScenarioAfterRead(sc, size) ==
    CASE sc = "accepted 3 of 8" /\ size = 4 -> "read 4 started"
      [] sc = "read 4 done" /\ size = 1 -> "read 1 started"
      [] sc = "start" -> "start"
      [] OTHER -> "off"

ScenarioAfterFulfilled(sc) ==
    CASE sc = "read 4 started" -> "read 4 done"
      [] sc = "read 1 started" -> "read 1 done"
      [] OTHER -> sc

\* The next k bytes of the stream.
WireBytes(m, k) == SubSeq(Wire, m.wire_pos + 1, m.wire_pos + k)

\* Entry of linux_net_conn_t::try_to_read_external_buf: the loop runs in
\* TryToReadExternalBufStep, one iteration a step.
try_to_read_external_buf(m) ==
    IF m.read_mode # "external"
    THEN Abort(m, "try_to_read_external_buf: assert(read_mode == read_mode_external)")
    ELSE Push(m, Frame("try_to_read_external_buf", "loop"))

\* One iteration of the loop of try_to_read_external_buf with the result res
\* of its ::read, or, once external_read_size is 0, the fulfilment.  The
\* callback and on_shutdown_read() are the last thing the function does, so
\* its frame is popped before they run.
try_to_read_external_buf_iter(m, res) ==
    IF m.external_read_size > 0
    THEN LET m1 == NoteRead(m)
         IN  IF res.res = -1
             THEN IF res.errno = "EAGAIN" THEN Pop(m1)
                  ELSE on_shutdown_read(Pop(m1))
             ELSE IF res.res = 0 THEN on_shutdown_read(Pop(m1))
             ELSE [m1 EXCEPT !.external_read_size = @ - res.res,
                             !.external_read_buf = @ \o WireBytes(m, res.res),
                             !.obs.consumed = @ \o WireBytes(m, res.res),
                             !.wire_pos = @ + res.res]
    ELSE InvokeCb(Pop([m EXCEPT !.read_mode = "none",
                                !.obs.scenario = ScenarioAfterFulfilled(@)]),
                  "on_net_conn_read_external")

\* The drain of the peek buffer in read_external.
DrainPeekBufferNone(m) == [m EXCEPT !.obs.read_drained = 0]
DrainPeekBuffer(m) ==
    LET peek_buffer_bytes == Min(Len(m.peek_buffer), m.external_read_size)
        head == SubSeq(m.peek_buffer, 1, peek_buffer_bytes)
    IN  [m EXCEPT !.external_read_buf = @ \o head,
                  !.peek_buffer = SubSeq(@, peek_buffer_bytes + 1, Len(@)),
                  !.external_read_size = @ - peek_buffer_bytes,
                  !.obs.consumed = @ \o head,
                  !.obs.read_drained = peek_buffer_bytes]

\* read_external without its assertions.
read_external_unchecked(m, size) ==
    LET m1 == register_with_event_loop(m)
        m2 == [m1 EXCEPT !.read_mode = "external",
                         !.external_read_buf = <<>>,
                         !.external_read_size = size,
                         !.obs.read_syscall_in_op = FALSE,
                         !.obs.scenario = ScenarioAfterRead(@, size)]
    IN  try_to_read_external_buf(DrainPeekBuffer(m2))

\* The innermost frame of see_if_callback_is_satisfied on the stack s (0 if
\* there is none): the offer that is open while its callback runs.
InnermostOffer(s) ==
    LET I == {i \in 1..Len(s) : s[i].fn = "see_if_callback_is_satisfied"}
    IN  IF I = {} THEN 0 ELSE CHOOSE i \in I : \A j \in I : j <= i

\* (observation) a read is started by the callback of an offer it has accepted.
NoteNested(m) ==
    LET i == InnermostOffer(m.stack)
    IN  IF i # 0 /\ m.stack[i].accepted
        THEN [m EXCEPT !.stack[i].nested = TRUE]
        ELSE m

\* linux_net_conn_t::read_external
read_external(m, size) ==
    IF m.read_was_shut_down
    THEN Abort(m, "read_external: assert(!read_was_shut_down)")
    ELSE
    LET m1 == register_with_event_loop(m)
    IN  IF m1.read_mode # "none"
        THEN Abort(m1, "read_external: assert(read_mode == read_mode_none)")
        ELSE
        LET m2 == [NoteNested(m1)
                      EXCEPT !.read_mode = "external",
                             !.external_read_buf = <<>>,
                             !.external_read_size = size,
                             !.obs.read_syscall_in_op = FALSE,
                             !.obs.scenario = ScenarioAfterRead(@, size)]
        IN  try_to_read_external_buf(DrainPeekBuffer(m2))

\* linux_net_conn_t::see_if_callback_is_satisfied up to the callback: the
\* frame keeps the locals `deleted` and `prev_set_me_true_on_delete`.  What
\* follows the callback is see_if_callback_is_satisfied_resume.
see_if_callback_is_satisfied(m) ==
    IF m.read_mode # "buffered"
    THEN Abort(m, "see_if_callback_is_satisfied: assert(read_mode == read_mode_buffered)")
    ELSE IF m.in_read_buffered_cb
    THEN Abort(m, "see_if_callback_is_satisfied: assert(!in_read_buffered_cb)")
    ELSE
    LET f  == [Frame("see_if_callback_is_satisfied", "cb")
                 EXCEPT !.prev = m.set_me_true_on_delete,
                        !.offer = m.peek_buffer]
        m1 == Push([m EXCEPT !.in_read_buffered_cb = TRUE], f)
        m2 == [m1 EXCEPT !.set_me_true_on_delete = Len(m1.stack)]
    IN  InvokeCb(m2, "on_net_conn_read_buffered")

\* Writing true through a bool* that points to the local `deleted` of the
\* frame at index p (a pointer to a frame that has returned is dangling).
SetDeletedAt(m, p) ==
    IF p > Len(m.stack) \/ m.stack[p].fn \notin {"on_event", "see_if_callback_is_satisfied"}
    THEN UseAfterFree(m, "write through dangling set_me_true_on_delete")
    ELSE [m EXCEPT !.stack[p].deleted = TRUE]

\* Returning b from see_if_callback_is_satisfied to its caller, which is
\* `if (!see_if_callback_is_satisfied()) put_more_data_in_peek_buffer();` in
\* read_buffered and in put_more_data_in_peek_buffer: on true the caller
\* returns at once, on false it calls put_more_data_in_peek_buffer last.
ReturnFromSeeIf(m, b) ==
    LET m1 == Pop(m)
    IN  IF b THEN Pop(m1)
        ELSE [m1 EXCEPT !.stack[Len(m1.stack)] =
                            Frame("put_more_data_in_peek_buffer", "read")]

\* see_if_callback_is_satisfied after the callback has returned, without the
\* chaining of the deletion flag to the frame above.
see_if_resume_unchained(m) ==
    LET f == Top(m)
    IN  IF f.deleted
        THEN ReturnFromSeeIf(m, TRUE)
        ELSE IF ~m.alive
        THEN UseAfterFree(m, "see_if_callback_is_satisfied")
        ELSE
        LET m1 == [m EXCEPT !.set_me_true_on_delete = f.prev]
        IN  IF m1.in_read_buffered_cb
            THEN ReturnFromSeeIf([m1 EXCEPT !.in_read_buffered_cb = FALSE], FALSE)
            ELSE ReturnFromSeeIf(m1, TRUE)

\* see_if_callback_is_satisfied taking every offer whose callback did not
\* delete the connection as rejected.
see_if_resume_reoffers(m) ==
    LET f == Top(m)
    IN  IF f.deleted
        THEN LET m1 == IF f.prev # 0 THEN SetDeletedAt(m, f.prev) ELSE m
             IN  IF m1.uaf # "" THEN m1 ELSE ReturnFromSeeIf(m1, TRUE)
        ELSE IF ~m.alive
        THEN UseAfterFree(m, "see_if_callback_is_satisfied")
        ELSE ReturnFromSeeIf([m EXCEPT !.set_me_true_on_delete = f.prev,
                                       !.in_read_buffered_cb = FALSE], FALSE)

\* see_if_callback_is_satisfied after the callback has returned.
see_if_callback_is_satisfied_resume(m) ==
    LET f == Top(m)
    IN  IF f.deleted
        THEN LET m1 == IF f.prev # 0 THEN SetDeletedAt(m, f.prev) ELSE m
             IN  IF m1.uaf # "" THEN m1 ELSE ReturnFromSeeIf(m1, TRUE)
        ELSE IF ~m.alive
        THEN UseAfterFree(m, "see_if_callback_is_satisfied")
        ELSE
        LET m1 == [m EXCEPT !.set_me_true_on_delete = f.prev]
        IN  IF m1.in_read_buffered_cb
            THEN ReturnFromSeeIf([m1 EXCEPT !.in_read_buffered_cb = FALSE], FALSE)
            ELSE ReturnFromSeeIf(m1, TRUE)

\* linux_net_conn_t::read_buffered
read_buffered(m) ==
    IF m.read_was_shut_down
    THEN Abort(m, "read_buffered: assert(!read_was_shut_down)")
    ELSE
    LET m1 == register_with_event_loop(m)
    IN  IF m1.read_mode # "none"
        THEN Abort(m1, "read_buffered: assert(read_mode == read_mode_none)")
        ELSE
        LET m2 == [NoteNested(m1)
                      EXCEPT !.read_mode = "buffered",
                             !.obs.read_syscall_in_op = FALSE,
                             !.obs.scenario = IF @ = "start" THEN @ ELSE "off"]
        IN  see_if_callback_is_satisfied(Push(m2, Frame("read_buffered", "wait")))

\* linux_net_conn_t::put_more_data_in_peek_buffer with the result res of its
\* ::read; the top frame is its own.  Its recursive call is its last
\* statement, so the recursion reuses the frame.
put_more_data_in_peek_buffer(m, res) ==
    IF ~m.alive
    THEN UseAfterFree(m, "put_more_data_in_peek_buffer")
    ELSE IF m.read_mode # "buffered"
    THEN Abort(m, "put_more_data_in_peek_buffer: assert(read_mode == read_mode_buffered)")
    ELSE
    LET m1 == NoteRead(m)
    IN  IF res.res = -1
        THEN IF res.errno = "EAGAIN" THEN Pop(m1)
             ELSE on_shutdown_read(Pop(m1))
        ELSE IF res.res = 0 THEN on_shutdown_read(Pop(m1))
        ELSE see_if_callback_is_satisfied(
                 SetTopPc([m1 EXCEPT !.peek_buffer = @ \o WireBytes(m, res.res),
                                     !.wire_pos = @ + res.res], "wait"))

\* (observation) accept_buffer(bytes) was called on the open offer.
NoteAccept(m, bytes) ==
    LET i == InnermostOffer(m.stack)
        all == m.obs.consumed = <<>> /\ Len(m.peek_buffer) = 8 /\ bytes = 3
    IN  [m EXCEPT !.stack = IF i = 0 THEN @ ELSE [@ EXCEPT ![i].accepted = TRUE],
                  !.obs.scenario = IF @ = "start" /\ all THEN "accepted 3 of 8"
                                   ELSE "off"]

\* accept_buffer erasing the last `bytes` bytes of the peek buffer instead of
\* the first.
accept_buffer_tail(m, bytes) ==
    IF m.read_mode # "buffered" \/ ~m.in_read_buffered_cb \/ bytes > Len(m.peek_buffer)
    THEN Abort(m, "accept_buffer: assert")
    ELSE [NoteAccept(m, bytes)
            EXCEPT !.obs.consumed = @ \o SubSeq(m.peek_buffer, 1, bytes),
                   !.peek_buffer = SubSeq(@, 1, Len(@) - bytes),
                   !.in_read_buffered_cb = FALSE,
                   !.read_mode = "none"]

\* linux_net_conn_t::accept_buffer
accept_buffer(m, bytes) ==
    IF m.read_mode # "buffered"
    THEN Abort(m, "accept_buffer: assert(read_mode == read_mode_buffered)")
    ELSE IF ~m.in_read_buffered_cb
    THEN Abort(m, "accept_buffer: assert(in_read_buffered_cb)")
    ELSE IF bytes > Len(m.peek_buffer)
    THEN Abort(m, "accept_buffer: assert(bytes <= peek_buffer.size())")
    ELSE [NoteAccept(m, bytes)
            EXCEPT !.obs.consumed = @ \o SubSeq(m.peek_buffer, 1, bytes),
                   !.peek_buffer = SubSeq(@, bytes + 1, Len(@)),
                   !.in_read_buffered_cb = FALSE,
                   !.read_mode = "none"]

\* ----------------------------------------------------------- write path

\* Results of ::write(sock, buf, n).
WriteResults(n) ==
    {SysResult(k, "") : k \in 0..n}
    \cup {SysResult(-1, e) : e \in {"EAGAIN", "EPIPE", "EIO"}}

NoteWrite(m) ==
    [m EXCEPT !.obs.write_after_shutdown = @ \/ m.write_was_shut_down]

\* Whether the step from m to n changed what the poller holds for the
\* descriptor; recorded for the write in progress.
NoteMask(m, n) ==
    [n EXCEPT !.obs.write_changed_mask =
        @ \/ <<m.poll_watch, m.poll_mask>> # <<n.poll_watch, n.poll_mask>>]

\* Entry of linux_net_conn_t::try_to_write_external_buf.
try_to_write_external_buf(m) ==
    IF m.write_mode # "external"
    THEN Abort(m, "try_to_write_external_buf: assert(write_mode == write_mode_external)")
    ELSE Push(m, Frame("try_to_write_external_buf", "loop"))

\* The end of try_to_write_external_buf, reached with external_write_size 0,
\* in two steps: the writable interest is dropped ("loop" to "fulfil"), then
\* the write is declared fulfilled and the callback runs.
\* The same end without the writable interest being dropped.
write_drained_keeps_interest(m) == SetTopPc(m, "fulfil")

write_drained(m) ==
    SetTopPc(IF m.registered_for_writes
             THEN [adjust_resource(m, {"in"}) EXCEPT !.registered_for_writes = FALSE]
             ELSE m,
             "fulfil")

write_fulfilled(m) ==
    InvokeCb(Pop([m EXCEPT !.write_mode = "none"]),
             "on_net_conn_write_external")

\* One iteration of the loop of try_to_write_external_buf with the result res
\* of its ::write.
try_to_write_external_buf_iter(m, res) ==
    IF m.external_write_size > 0
    THEN LET m1 == NoteWrite(m)
         IN  IF res.res = -1
             THEN IF res.errno = "EAGAIN"
                  THEN LET m2 == adjust_resource(m1, {"in", "out"})
                       IN  Pop([m2 EXCEPT !.registered_for_writes = TRUE,
                                          !.obs.write_saw_wouldblock = TRUE,
                                          !.obs.mask_at_wouldblock = m2.poll_mask])
                  ELSE on_shutdown_write(Pop(m1))
             ELSE IF res.res = 0 THEN on_shutdown_write(Pop(m1))
             ELSE [m1 EXCEPT !.external_write_size = @ - res.res]
    ELSE write_drained(m)

\* linux_net_conn_t::write_external
write_external(m, size) ==
    IF m.write_was_shut_down
    THEN Abort(m, "write_external: assert(!write_was_shut_down)")
    ELSE
    LET m1 == register_with_event_loop(m)
    IN  IF m1.write_mode # "none"
        THEN Abort(m1, "write_external: assert(write_mode == write_mode_none)")
        ELSE try_to_write_external_buf(
                 [m1 EXCEPT !.write_mode = "external",
                            !.external_write_size = size,
                            !.obs.write_saw_wouldblock = FALSE,
                            !.obs.write_changed_mask = FALSE])

\* ----------------------------------------------------------- destructor

\* linux_net_conn_t::~linux_net_conn_t without its assertions.
destructor_unchecked(m) ==
    LET m1 == IF m.set_me_true_on_delete # 0
              THEN SetDeletedAt(m, m.set_me_true_on_delete) ELSE m
    IN  [m1 EXCEPT !.fd_closed = @ + 1, !.alive = FALSE]

\* linux_net_conn_t::~linux_net_conn_t (sock is never INVALID_FD here: nothing
\* in this file steals it)
destructor(m) ==
    LET m1 == IF m.set_me_true_on_delete # 0
              THEN SetDeletedAt(m, m.set_me_true_on_delete) ELSE m
    IN  IF ~m1.read_was_shut_down
        THEN Abort(m1, "~linux_net_conn_t: assert(read_was_shut_down)")
        ELSE IF ~m1.write_was_shut_down
        THEN Abort(m1, "~linux_net_conn_t: assert(write_was_shut_down)")
        ELSE [m1 EXCEPT !.fd_closed = @ + 1, !.alive = FALSE,
                        !.obs.deleted_in_buffered_cb =
                            \E i \in 1..Len(m.stack) :
                                /\ m.stack[i].fn = "cb"
                                /\ m.stack[i].pc = "on_net_conn_read_buffered"]

\* -------------------------------------------------------------- on_event

\* Event masks the poller may deliver: readable and writable only if they are
\* in the registered interest mask; err and hup are reported regardless.
\* (hup without err takes the same path as no hup.)
EventMasks(mask) ==
    {ev \in SUBSET {"in", "out", "err", "hup"} :
        /\ ev # {}
        /\ ev \cap {"in", "out"} \subseteq mask
        /\ "hup" \in ev => "err" \in ev}

\* Entry of linux_net_conn_t::on_event: the frame keeps the local `deleted`
\* and the argument `events`.
on_event(m, events) ==
    IF ~m.alive
    THEN UseAfterFree(m, "on_event")
    ELSE LET m1 == Push(m, [Frame("on_event", "in") EXCEPT !.events = events])
         IN  [m1 EXCEPT !.set_me_true_on_delete = Len(m1.stack)]

\* `if (deleted) return;` after the read and after the write dispatch.
on_event_check(m, next) ==
    IF Top(m).deleted THEN Pop(m) ELSE SetTopPc(m, next)

\* linux_net_conn_t::on_event from the place pc of its frame (the top frame)
\* up to the next call it makes.
on_event_resume(m) ==
    LET f == Top(m)
    IN  CASE f.pc = "in" ->
               IF "in" \in f.events
               THEN IF m.read_was_shut_down
                    THEN Abort(m, "on_event: assert(!read_was_shut_down)")
                    ELSE CASE m.read_mode = "none" -> SetTopPc(m, "in_done")
                           [] m.read_mode = "external" ->
                                try_to_read_external_buf(SetTopPc(m, "in_done"))
                           [] m.read_mode = "buffered" ->
                                Push(SetTopPc(m, "in_done"),
                                     Frame("put_more_data_in_peek_buffer", "read"))
               ELSE SetTopPc(m, "out")
          [] f.pc = "in_done" -> on_event_check(m, "out")
          [] f.pc = "out" ->
               IF ~m.alive THEN UseAfterFree(m, "on_event: write_was_shut_down")
               ELSE IF "out" \in f.events /\ ~m.write_was_shut_down
               THEN CASE m.write_mode = "none" -> SetTopPc(m, "out_done")
                      [] m.write_mode = "external" ->
                           try_to_write_external_buf(SetTopPc(m, "out_done"))
               ELSE SetTopPc(m, "err")
          [] f.pc = "out_done" -> on_event_check(m, "err")
          [] f.pc = "err" ->
               IF "err" \in f.events /\ "hup" \in f.events
               THEN SetTopPc(m, "end")
               ELSE IF "err" \in f.events
               THEN IF ~m.alive
                    THEN UseAfterFree(m, "on_event: read_was_shut_down")
                    ELSE IF ~m.read_was_shut_down
                    THEN shutdown_read(SetTopPc(m, "err_read_done"))
                    ELSE SetTopPc(m, "err_read_done")
               ELSE SetTopPc(m, "end")
          [] f.pc = "err_read_done" ->
               IF f.deleted THEN Pop(m)
               ELSE IF ~m.alive
               THEN UseAfterFree(m, "on_event: write_was_shut_down")
               ELSE IF ~m.write_was_shut_down
               THEN shutdown_write(SetTopPc(m, "end"))
               ELSE SetTopPc(m, "end")
          [] f.pc = "end" ->
               IF ~m.alive
               THEN UseAfterFree(m, "on_event: set_me_true_on_delete = NULL")
               ELSE Pop([m EXCEPT !.set_me_true_on_delete = 0])

\* ---------------------------------------------------------------- actions

Running == aborted = "" /\ uaf = ""

\* Control is with the user: at the top level of the event loop, or inside a
\* callback.
UserTurn ==
    /\ Running
    /\ IF stack = <<>> THEN TRUE ELSE stack[Len(stack)].fn = "cb"

\* The user may call into the connection: it still exists, and the nesting
\* bound is kept.
UserMayCall ==
    /\ UserTurn /\ alive
    /\ CbDepth(stack) <= MaxNest
    /\ obs.calls < MaxCalls

\* The call is counted.
Called(m) == [m EXCEPT !.obs.calls = @ + 1]

TopIs(fn) ==
    /\ Running
    /\ IF stack = <<>> THEN FALSE ELSE stack[Len(stack)].fn = fn

CallReadExternal ==
    /\ UserMayCall
    /\ \E size \in ReadSizes : Becomes(Called(read_external(Cur, size)))

CallReadBuffered ==
    /\ UserMayCall
    /\ Becomes(Called(read_buffered(Cur)))

CallAcceptBuffer ==
    /\ UserMayCall
    /\ \E bytes \in 0..Len(peek_buffer) : Becomes(Called(accept_buffer(Cur, bytes)))

CallWriteExternal ==
    /\ UserMayCall
    /\ \E size \in WriteSizes : Becomes(Called(write_external(Cur, size)))

CallShutdownRead ==
    /\ UserMayCall
    /\ Becomes(Called(shutdown_read(Cur)))

CallShutdownWrite ==
    /\ UserMayCall
    /\ Becomes(Called(shutdown_write(Cur)))

\* delete conn;
Delete ==
    /\ UserTurn /\ alive
    /\ Becomes(destructor(Cur))

\* The user callback returns.
CbReturn ==
    /\ TopIs("cb")
    /\ Becomes(Pop(Cur))

\* The poller delivers readiness to a watched connection.
PollerEvent ==
    /\ Running /\ stack = <<>>
    /\ poll_watch = "watched"
    /\ \E events \in EventMasks(poll_mask) : Becomes(on_event(Cur, events))

OnEventStep ==
    /\ TopIs("on_event")
    /\ Becomes(on_event_resume(Cur))

TryToReadExternalBufStep ==
    /\ TopIs("try_to_read_external_buf")
    /\ \E res \in ReadResults(Cur, external_read_size) :
          Becomes(try_to_read_external_buf_iter(Cur, res))

PutMoreDataInPeekBufferStep ==
    /\ TopIs("put_more_data_in_peek_buffer")
    /\ \E res \in ReadResults(Cur, IO_BUFFER_SIZE) :
          Becomes(put_more_data_in_peek_buffer(Cur, res))

SeeIfCallbackIsSatisfiedStep ==
    /\ TopIs("see_if_callback_is_satisfied")
    /\ Becomes(see_if_callback_is_satisfied_resume(Cur))

TryToWriteExternalBufStep ==
    /\ TopIs("try_to_write_external_buf")
    /\ stack[Len(stack)].pc = "loop"
    /\ \E res \in WriteResults(external_write_size) :
          Becomes(NoteMask(Cur, try_to_write_external_buf_iter(Cur, res)))

WriteFulfilledStep ==
    /\ TopIs("try_to_write_external_buf")
    /\ stack[Len(stack)].pc = "fulfil"
    /\ Becomes(write_fulfilled(Cur))

ConnNext ==
    \/ CallReadExternal
    \/ CallReadBuffered
    \/ CallAcceptBuffer
    \/ CallWriteExternal
    \/ CallShutdownRead
    \/ CallShutdownWrite
    \/ Delete
    \/ CbReturn
    \/ PollerEvent
    \/ OnEventStep
    \/ TryToReadExternalBufStep
    \/ PutMoreDataInPeekBufferStep
    \/ SeeIfCallbackIsSatisfiedStep
    \/ TryToWriteExternalBufStep
    \/ WriteFulfilledStep

\* ---------------------------------------------------------------- listener

\* Two listener objects, and two ports for them to be constructed on.
Listeners == {1, 2}
Ports == {1, 2}

\* Connections that arrive at a port in one run.
MaxConnects == 2
\* accept() calls that fail with an errno other than EAGAIN in one run.
MaxAcceptErrors == 2
\* on_event calls on one listener in one run.
MaxEvents == 2

\* Before construction.
ListenerInit ==
    /\ listener = [l \in Listeners |->
                     [life |-> "unconstructed",  \* "constructed", "destroyed"
                      defunct |-> FALSE,
                      callback |-> FALSE,        \* callback != NULL
                      port |-> 0,                \* the port sock is bound to, or 0
                      sock_shut_down |-> 0,      \* shutdown(sock, SHUT_RDWR) calls
                      sock_closed |-> 0,         \* close(sock) calls
                      poll_watch |-> "none",     \* "watched", "forgotten"
                      pc |-> "idle"]]            \* "accept": in on_event's loop
    /\ backlog = [p \in Ports |-> 0]
    /\ lobs = [l \in Listeners |->
                 [bind_failed |-> FALSE,   \* bind() failed in the constructor
                  calls |-> {},            \* methods called on a defunct listener
                  poller_calls |-> 0,      \* watch_resource and forget_resource calls
                  accept_calls |-> 0,      \* accept() calls
                  accept_errors |-> 0,     \* those that failed, EAGAIN apart
                  accepted |-> <<>>,       \* descriptors accept() returned
                  handed |-> <<>>,         \* descriptors of the connections passed
                                           \* to on_net_listener_accept
                  last_accept |-> "",      \* outcome of the last accept()
                  events |-> 0]]           \* on_event calls

\* bind() fails when another open socket is bound to the port, and may fail
\* for other reasons.
PortInUse(ls, p) ==
    \E k \in Listeners : ls[k].port = p /\ ls[k].sock_closed = 0

\* linux_net_listener_t::linux_net_listener_t(int port), with the outcome of
\* bind(); socket(), setsockopt(), listen() and fcntl() succeed.
listener_construct(x, port, bind_ok) ==
    LET x1 == [x EXCEPT !.life = "constructed", !.defunct = FALSE,
                        !.callback = FALSE]
    IN  IF ~bind_ok
        THEN [x1 EXCEPT !.defunct = TRUE]
        ELSE [x1 EXCEPT !.port = port]

\* set_callback without the test of defunct.
listener_set_callback_unguarded(x) ==
    [x EXCEPT !.callback = TRUE, !.poll_watch = "watched"]

\* linux_net_listener_t::set_callback (called once: assert(!callback))
listener_set_callback(x) ==
    IF x.defunct THEN x
    ELSE [x EXCEPT !.callback = TRUE, !.poll_watch = "watched"]

\* linux_net_listener_t::on_event up to its loop.
listener_on_event(x) ==
    IF x.defunct THEN x ELSE [x EXCEPT !.pc = "accept"]

\* Where on_event's loop goes after an accept() that ended as `outcome`:
\* "ok", "EAGAIN", "EINTR" (one of the errno the switch names) or "EMFILE"
\* (any other).
listener_after_accept_break_on_error(outcome) ==
    IF outcome = "ok" THEN "accept" ELSE "idle"

listener_after_accept(outcome) ==
    IF outcome = "EAGAIN" THEN "idle" ELSE "accept"

\* linux_net_listener_t::~linux_net_listener_t
listener_destroy(x) ==
    IF x.defunct THEN [x EXCEPT !.life = "destroyed"]
    ELSE [x EXCEPT !.life = "destroyed",
                   !.poll_watch = IF x.callback THEN "forgotten" ELSE @,
                   !.sock_shut_down = @ + 1,
                   !.sock_closed = @ + 1]

\* (observation) The poller calls made by the step from x to y.
PollerCalls(x, y) == IF x.poll_watch # y.poll_watch THEN 1 ELSE 0

\* (observation) A method was called on a listener.
NoteListenerCall(o, x, y, name) ==
    [o EXCEPT !.calls = IF x.defunct THEN @ \cup {name} ELSE @,
              !.poller_calls = @ + PollerCalls(x, y)]

ListenerConstruct(l) ==
    /\ listener[l].life = "unconstructed"
    /\ \E port \in Ports, bind_ok \in BOOLEAN :
          /\ PortInUse(listener, port) => ~bind_ok
          /\ listener' = [listener EXCEPT
                            ![l] = listener_construct(@, port, bind_ok)]
          /\ lobs' = [lobs EXCEPT ![l].bind_failed = ~bind_ok]
    /\ UNCHANGED <<backlog, connVars, metaVars>>

ListenerSetCallback(l) ==
    /\ listener[l].life = "constructed"
    /\ ~listener[l].callback
    /\ "set_callback" \notin lobs[l].calls
    /\ listener' = [listener EXCEPT ![l] = listener_set_callback(@)]
    /\ lobs' = [lobs EXCEPT ![l] = NoteListenerCall(@, listener[l],
                                       listener'[l], "set_callback")]
    /\ UNCHANGED <<backlog, connVars, metaVars>>

\* (observation) The connections that have arrived at a port.
RECURSIVE Arrived(_, _)
Arrived(p, ls) ==
    IF ls = {} THEN backlog[p]
    ELSE LET l == CHOOSE k \in ls : TRUE
         IN  (IF listener[l].port = p THEN Len(lobs[l].accepted) ELSE 0)
             + Arrived(p, ls \ {l})

\* A peer connects to a port some listener listens on.
PeerConnects(p) ==
    /\ \E l \in Listeners : listener[l].port = p /\ listener[l].sock_closed = 0
    /\ Arrived(p, Listeners) < MaxConnects
    /\ backlog' = [backlog EXCEPT ![p] = @ + 1]
    /\ UNCHANGED <<listener, lobs, connVars, metaVars>>

\* on_event is called: by the poller on a watched listener, or by anyone on a
\* defunct one.
ListenerOnEvent(l) ==
    /\ listener[l].life = "constructed"
    /\ listener[l].pc = "idle"
    /\ listener[l].poll_watch = "watched" \/ listener[l].defunct
    /\ lobs[l].events < MaxEvents
    /\ listener' = [listener EXCEPT ![l] = listener_on_event(@)]
    /\ lobs' = [lobs EXCEPT ![l] = [NoteListenerCall(@, listener[l],
                                       listener'[l], "on_event")
                                    EXCEPT !.last_accept = "",
                                           !.events = @ + 1]]
    /\ UNCHANGED <<backlog, connVars, metaVars>>

\* One iteration of on_event's loop: accept() and what follows it.  A new
\* descriptor gets the next free number.
ListenerAccept(l) ==
    /\ listener[l].pc = "accept"
    /\ LET p == listener[l].port
           fd == Len(lobs[l].accepted) + 1
       IN  \E outcome \in {"ok", "EAGAIN", "EINTR", "EMFILE"} :
              /\ outcome = "ok" => backlog[p] > 0
              /\ outcome = "EAGAIN" => backlog[p] = 0
              /\ outcome \in {"EINTR", "EMFILE"} =>
                    lobs[l].accept_errors < MaxAcceptErrors
              /\ listener' = [listener EXCEPT
                                ![l].pc = listener_after_accept(outcome)]
              /\ backlog' = IF outcome = "ok"
                            THEN [backlog EXCEPT ![p] = @ - 1] ELSE backlog
              /\ lobs' = [lobs EXCEPT
                    ![l].accept_calls = @ + 1,
                    ![l].accept_errors =
                        IF outcome \in {"EINTR", "EMFILE"} THEN @ + 1 ELSE @,
                    ![l].accepted = IF outcome = "ok" THEN Append(@, fd) ELSE @,
                    ![l].handed =
                        IF outcome = "ok" /\ listener[l].callback
                        THEN Append(@, fd) ELSE @,
                    ![l].last_accept = outcome]
    /\ UNCHANGED <<connVars, metaVars>>

ListenerDestroy(l) ==
    /\ listener[l].life = "constructed"
    /\ listener[l].pc = "idle"
    /\ listener' = [listener EXCEPT ![l] = listener_destroy(@)]
    /\ lobs' = [lobs EXCEPT ![l] = NoteListenerCall(@, listener[l],
                                       listener'[l], "destructor")]
    /\ UNCHANGED <<backlog, connVars, metaVars>>

ListenerNext ==
    \/ \E l \in Listeners : ListenerConstruct(l)
    \/ \E l \in Listeners : ListenerSetCallback(l)
    \/ \E p \in Ports : PeerConnects(p)
    \/ \E l \in Listeners : ListenerOnEvent(l)
    \/ \E l \in Listeners : ListenerAccept(l)
    \/ \E l \in Listeners : ListenerDestroy(l)

\* ------------------------------------------------------- directory mirror

Peers == {1, 2, 3}
Tables == {1, 2}

\* Directory deltas in one run.
MaxDeltas == 3

\* timestamp_t: an epoch (wall-clock microtime and a uuid) and a log index.
Timestamp(microtime, id, log_index) ==
    [epoch |-> [timestamp |-> microtime, id |-> id], log_index |-> log_index]

\* epoch_t::supersedes and timestamp_t::supersedes: the strict order of
\* (epoch.timestamp, epoch.id, log_index), most significant first.
supersedes(a, b) ==
    \/ a.epoch.timestamp > b.epoch.timestamp
    \/ /\ a.epoch.timestamp = b.epoch.timestamp
       /\ a.epoch.id > b.epoch.id
    \/ /\ a.epoch = b.epoch
       /\ a.log_index > b.log_index

\* The timestamps the servers advertise: the second supersedes the first by
\* its epoch, though its uuid and its log index are lower.
Timestamps == {Timestamp(1, 2, 1), Timestamp(2, 1, 0)}

\* table_meta_bcard_t: what a peer advertises for a table it hosts.
TableCards(databases, names, primary_keys, leader) ==
    [database : databases, name : names, primary_key : primary_keys,
     timestamp : Timestamps, is_leader : leader]

\* A pointer that may be null is the set of what it points to: {} is
\* nullptr, {v} points to v.
Deref(ptr) == CHOOSE v \in ptr : TRUE

\* A map with the key set to the value, and with the key removed.
MapSet(map, key, value) ==
    [k \in DOMAIN map \cup {key} |-> IF k = key THEN value ELSE map[k]]

MapErase(map, key) == [k \in DOMAIN map \ {key} |-> map[k]]

\* The empty map.
EmptyMap == [k \in {} |-> 0]

\* watchable_map_t::read_key: a pointer to the value, null if there is none.
read_key(map, key) == IF key \in DOMAIN map THEN {map[key]} ELSE {}

\* on_directory_change, value appeared and no entry yet.
md_create(peer, dir_value) ==
    [witnesses |-> {peer},
     database |-> dir_value.database,
     name |-> dir_value.name,
     primary_key |-> dir_value.primary_key,
     timestamp |-> dir_value.timestamp]

\* The update without the test that the new timestamp supersedes.
md_update_always(md_value, peer, dir_value) ==
    [md_value EXCEPT !.witnesses = @ \cup {peer},
                     !.database = dir_value.database,
                     !.name = dir_value.name,
                     !.timestamp = dir_value.timestamp]

\* The update with the primary key carried over as well.
md_update_with_primary_key(md_value, peer, dir_value) ==
    IF supersedes(dir_value.timestamp, md_value.timestamp)
    THEN [md_create(peer, dir_value)
            EXCEPT !.witnesses = md_value.witnesses \cup {peer}]
    ELSE [md_value EXCEPT !.witnesses = @ \cup {peer}]

\* on_directory_change, value appeared and the entry exists.
md_update(md_value, peer, dir_value) ==
    LET seen == [md_value EXCEPT !.witnesses = @ \cup {peer}]
    IN  IF supersedes(dir_value.timestamp, md_value.timestamp)
        THEN [seen EXCEPT !.database = dir_value.database,
                          !.name = dir_value.name,
                          !.timestamp = dir_value.timestamp]
        ELSE seen

\* The erasure that keeps an entry whose witnesses are gone.
md_erase_keeps_entry(md, table, peer) ==
    [md EXCEPT ![table].witnesses = @ \ {peer}]

\* on_directory_change, value disappeared and the entry exists.
md_erase(md, table, peer) ==
    LET left == md[table].witnesses \ {peer}
    IN  IF left = {}
        THEN MapErase(md, table)
        ELSE [md EXCEPT ![table].witnesses = left]

\* table_meta_client_t::on_directory_change on the mirror md, for the delta
\* (key, dir_value) with key = <<peer, table>>.
on_directory_change(md, key, dir_value) ==
    LET peer == key[1]
        table == key[2]
        md_exists == table \in DOMAIN md
    IN  IF dir_value # {} /\ ~md_exists
        THEN MapSet(md, table, md_create(peer, Deref(dir_value)))
        ELSE IF dir_value # {} /\ md_exists
        THEN MapSet(md, table, md_update(md[table], peer, Deref(dir_value)))
        ELSE IF md_exists
        THEN md_erase(md, table, peer)
        ELSE md

\* Before any directory delta; no find() yet.
DirectoryInit ==
    /\ table_meta_directory = EmptyMap
    /\ table_metadata_by_id = EmptyMap
    /\ dobs = [deltas |-> 0,
               \* per table: the timestamps its entries have carried
               ever_carried |-> [t \in Tables |-> {}],
               \* the same since the entry was last created
               carried |-> [t \in Tables |-> {}],
               \* per table: the cards advertised for it
               ever_observed |-> [t \in Tables |-> {}],
               \* the same since the entry was last created, in delivery order
               observed |-> [t \in Tables |-> <<>>]]
    /\ find_out = [called |-> FALSE, database |-> 0, name |-> 0,
                   ok |-> FALSE, count |-> 0, table_id |-> 0]

\* (observation) The delta (key, dir_value) has taken the mirror to md.
NoteDelta(o, md, key, dir_value) ==
    LET table == key[2]
        exists == table \in DOMAIN md
        seen == IF dir_value = {} THEN <<>> ELSE <<Deref(dir_value)>>
        now == IF exists THEN {md[table].timestamp} ELSE {}
    IN  [o EXCEPT !.deltas = @ + 1,
                  !.ever_carried[table] = @ \cup now,
                  !.carried[table] = IF exists THEN @ \cup now ELSE {},
                  !.ever_observed[table] = @ \cup dir_value,
                  !.observed[table] = IF exists THEN @ \o seen ELSE <<>>]

\* The (peer, table) directory changes at key, to the card dir_value or to
\* nothing, and the subscription runs on_directory_change.
DirectoryChange(key, dir_value) ==
    /\ dobs.deltas < MaxDeltas
    /\ dir_value # read_key(table_meta_directory, key)
    /\ table_meta_directory' =
          IF dir_value = {} THEN MapErase(table_meta_directory, key)
          ELSE MapSet(table_meta_directory, key, Deref(dir_value))
    /\ table_metadata_by_id' =
          on_directory_change(table_metadata_by_id, key, dir_value)
    /\ dobs' = NoteDelta(dobs, table_metadata_by_id', key, dir_value)
    /\ UNCHANGED find_out

\* The order in which read_all visits the keys of a map of tables, and of a
\* map of (peer, table) pairs.
TableLeq(a, b) == a <= b

PairLeq(a, b) == a[1] < b[1] \/ (a[1] = b[1] /\ a[2] <= b[2])

\* watchable_map_t::read_all: visit is called on every key and value, in the
\* order of the keys, and acc is what the visits have captured by reference.
RECURSIVE read_all(_, _, _, _, _)
read_all(map, keys, leq(_, _), visit(_, _, _), acc) ==
    IF keys = {}
    THEN acc
    ELSE LET key == CHOOSE k \in keys : \A j \in keys : leq(k, j)
         IN  read_all(map, keys \ {key}, leq, visit,
                      visit(acc, key, map[key]))

\* The visit of find that matches on the name alone.
find_visit_name_only(out, key, value, database, name) ==
    IF value.name = name
    THEN [count |-> out.count + 1, table_id |-> key]
    ELSE out

\* The function find passes to read_all.
find_visit(out, key, value, database, name) ==
    IF value.database = database /\ value.name = name
    THEN [count |-> out.count + 1, table_id |-> key]
    ELSE out

\* table_meta_client_t::find on the mirror md; table_id is what the caller
\* had in *table_id_out.
find(md, database, name, table_id) ==
    LET out == read_all(md, DOMAIN md, TableLeq,
                        LAMBDA acc, key, value :
                            find_visit(acc, key, value, database, name),
                        [count |-> 0, table_id |-> table_id])
    IN  [ok |-> out.count = 1, count |-> out.count, table_id |-> out.table_id]

\* The peers and cards of the runs that exercise the mirror.
MirrorPeers == {1, 2}

\* Tables in two databases under two names, each with the primary key named
\* after the table.
MirrorCards ==
    {card \in TableCards({1, 2}, {1, 2}, {1, 2}, {FALSE}) :
        card.primary_key = card.name}

\* A directory delta reaches the mirror (the run is followed up to its
\* find()).
DirectoryDelta ==
    /\ ~find_out.called
    /\ \E key \in MirrorPeers \X Tables :
       \E dir_value \in {{}} \cup {{card} : card \in MirrorCards} :
          DirectoryChange(key, dir_value)
    /\ UNCHANGED <<clientVars, connVars, listenerVars>>

\* find(database, name) is called.
CallFind ==
    /\ ~find_out.called
    /\ \E database \in {1, 2}, name \in {1, 2} :
          find_out' = [called |-> TRUE, database |-> database, name |-> name]
                      @@ find(table_metadata_by_id, database, name, 0)
    /\ UNCHANGED <<table_meta_directory, table_metadata_by_id, dobs,
                   clientVars, connVars, listenerVars>>

DirectoryNext ==
    \/ DirectoryDelta
    \/ CallFind

\* ------------------------------------------------------- metadata client

\* The table the operations of a run are about.
ClientTable == 1

\* No operation: the fields of an operation in progress.  A signal is a
\* BOOLEAN (pulsed or not); a mailbox address and a promise's value are null
\* ({}) or set.
NoOp ==
    [name |-> "none",        \* "get_config", "create", "drop", "set_config"
     pc |-> "none",          \* where the calling coroutine is
     table_id |-> 0,
     new_name |-> 0,         \* set_config: new_config.config.name
     interruptor |-> FALSE,
     best_mailbox |-> {},    \* the peer of best_mailbox
     best_timestamp |-> {},
     dw |-> FALSE,           \* the disconnect watcher of the single request
     promise |-> {},
     timestamp |-> {},       \* set_config: the timestamp of the reply
     bcards |-> EmptyMap,    \* create, drop: server id -> business card
     task |-> EmptyMap,      \* server id -> the sub-task pmap runs for it
     num_acked |-> 0,
     configs_out |-> EmptyMap, \* list_configs: table id -> config
     merged |-> <<>>,        \* (observation) the peers merged, in order
     timeout |-> FALSE,      \* the 10 s signal_timer_t
     sent |-> {},            \* (observation) the messages sent
     scanned |-> {},         \* (observation) the candidates at the snapshot
     waited |-> FALSE,       \* (observation) has waited on the mirror
     result |-> ""]          \* what the call returned or threw

\* Before any operation of the metadata client.
ClientInit ==
    /\ table_meta_manager_directory = EmptyMap
    /\ connected = {}
    /\ op = NoOp

\* What a peer is to the client when an operation starts: unknown, or
\* connected with a manager business card, a table card, or both.
PeerShapes ==
    {[manager |-> FALSE, card |-> {}]}
    \cup [manager : BOOLEAN,
          card : {{card} : card \in TableCards({1}, {1}, {1}, BOOLEAN)}]
    \cup {[manager |-> TRUE, card |-> {}]}

\* The client is constructed in a cluster: every peer has one of the shapes.
\* A table_meta_manager_bcard_t is the server id of the peer and its
\* mailboxes, which all live on the peer; the mirror is what the initial
\* call of the subscription makes of every key of the directory.
ClusterForms ==
    /\ op.name = "none"
    /\ connected = {}
    /\ \E shape \in [Peers -> PeerShapes] :
          LET known == {p \in Peers : shape[p].manager \/ shape[p].card # {}}
              dir == [key \in {<<p, ClientTable>> : p \in
                                  {q \in known : shape[q].card # {}}} |->
                        Deref(shape[key[1]].card)]
          IN  /\ known # {}
              /\ connected' = known
              /\ table_meta_manager_directory' =
                    [p \in {q \in known : shape[q].manager} |->
                        [server_id |-> p, peer |-> p]]
              /\ table_meta_directory' = dir
              /\ table_metadata_by_id' =
                    read_all(dir, DOMAIN dir, PairLeq,
                             LAMBDA md, key, value :
                                 on_directory_change(md, key, {value}),
                             EmptyMap)
    /\ UNCHANGED <<op, dobs, find_out, connVars, listenerVars>>

\* The interruptor of the operation in progress is pulsed.
Interrupt ==
    /\ op.name # "none"
    /\ op.result = ""
    /\ ~op.interruptor
    /\ op' = [op EXCEPT !.interruptor = TRUE]
    /\ UNCHANGED <<table_meta_manager_directory, connected, directoryVars,
                   connVars, listenerVars>>

\* The operation ends: it returns result, or throws ("interrupted_exc_t").
Return(o, result) == [o EXCEPT !.pc = "done", !.result = result]

\* A message for a mailbox of a peer.
Message(peer, mailbox, table_id, timestamp, is_drop, member_id, raft_ps) ==
    [to |-> peer, mailbox |-> mailbox, table_id |-> table_id,
     timestamp |-> timestamp, drop |-> is_drop, member_id |-> member_id,
     raft_ps |-> raft_ps]

\* The scan of get_config and of set_config: the function passed to
\* read_all, with the manager directory mgr; only leaders count if
\* leaders_only.  best is the pair of best_mailbox and best_timestamp.
scan_visit(best, key, table_bcard, mgr, table_id, leaders_only) ==
    LET server_bcard == read_key(mgr, key[1])
    IN  IF key[2] = table_id /\ server_bcard # {}
           /\ (leaders_only => table_bcard.is_leader)
           /\ (IF best.mailbox = {}
               THEN TRUE
               ELSE supersedes(table_bcard.timestamp, Deref(best.timestamp)))
        THEN [mailbox |-> {Deref(server_bcard).peer},
              timestamp |-> {table_bcard.timestamp}]
        ELSE best

\* The scan of get_config without the test that the timestamp supersedes:
\* the last candidate wins.
get_config_scan_last_wins(dir, mgr, table_id) ==
    read_all(dir, DOMAIN dir, PairLeq,
             LAMBDA best, key, table_bcard :
                 IF key[2] = table_id /\ read_key(mgr, key[1]) # {}
                 THEN [mailbox |-> {key[1]},
                       timestamp |-> {table_bcard.timestamp}]
                 ELSE best,
             [mailbox |-> {}, timestamp |-> {}])

\* get_config: find a mailbox of a server that claims to be hosting the
\* table.
get_config_scan(dir, mgr, table_id) ==
    read_all(dir, DOMAIN dir, PairLeq,
             LAMBDA best, key, table_bcard :
                 scan_visit(best, key, table_bcard, mgr, table_id, FALSE),
             [mailbox |-> {}, timestamp |-> {}])

\* (observation) The peers that advertise the table and have a manager
\* business card, with the timestamps they advertise.
Candidates(dir, mgr, table_id) ==
    {[peer |-> key[1], timestamp |-> dir[key].timestamp,
      is_leader |-> dir[key].is_leader] :
        key \in {k \in DOMAIN dir : k[2] = table_id /\ k[1] \in DOMAIN mgr}}

\* The request to the peer in best has been sent and the coroutine waits for
\* the reply, the disconnect watcher or the interruptor.
send_request(o, best, mailbox, conn) ==
    [o EXCEPT !.best_mailbox = best.mailbox,
              !.best_timestamp = best.timestamp,
              !.dw = Deref(best.mailbox) \notin conn,
              !.sent = @ \cup {Message(Deref(best.mailbox), mailbox,
                                       {o.table_id}, {}, {}, {}, {})},
              !.pc = "wait_reply"]

\* table_meta_client_t::get_config up to its wait.
get_config(o, dir, mgr, conn) ==
    LET best == get_config_scan(dir, mgr, o.table_id)
        o1 == [o EXCEPT !.scanned = Candidates(dir, mgr, o.table_id)]
    IN  IF best.mailbox = {}
        THEN Return(o1, "false")
        ELSE send_request(o1, best, "get_config_mailbox", conn)

\* get_config from the wake-up of wait_interruptible on: promise.wait()
\* returns the reply, or blocks while the promise is not pulsed.
get_config_resume(o) ==
    IF o.interruptor
    THEN Return(o, "interrupted_exc_t")
    ELSE IF o.promise = {}
    THEN [o EXCEPT !.pc = "promise.wait"]
    ELSE IF Deref(o.promise) = {}
    THEN Return(o, "false")
    ELSE Return(o, "true")

CallGetConfig ==
    /\ op.name = "none"
    /\ connected # {}
    /\ op' = get_config([NoOp EXCEPT !.name = "get_config",
                                     !.table_id = ClientTable],
                        table_meta_directory, table_meta_manager_directory,
                        connected)
    /\ UNCHANGED <<table_meta_manager_directory, connected, directoryVars,
                   connVars, listenerVars>>

\* The reply to the single request of get_config or set_config arrives from
\* the peer it was sent to: for get_config a map of configs (its keys), for
\* set_config a timestamp or nothing.
ReplyArrives ==
    /\ op.pc = "wait_reply"
    /\ op.promise = {}
    /\ op.best_mailbox \subseteq connected
    /\ \E value \in IF op.name = "get_config"
                     THEN {{}, {op.table_id}}
                     ELSE {{}} \cup {{ts} : ts \in Timestamps} :
          op' = [op EXCEPT !.promise = {value}]
    /\ UNCHANGED <<table_meta_manager_directory, connected, directoryVars,
                   connVars, listenerVars>>

GetConfigResumes ==
    /\ op.name = "get_config"
    /\ op.pc = "wait_reply"
    /\ op.promise # {} \/ op.dw \/ op.interruptor
    /\ op' = get_config_resume(op)
    /\ UNCHANGED <<table_meta_manager_directory, connected, directoryVars,
                   connVars, listenerVars>>

\* The timestamp create gives a new table: current_microtime() and a fresh
\* uuid.
CreateTimestamp == Timestamp(2, 3, 0)

\* The largest microtime_t and raft_log_index_t.
MAX_MICROTIME == 9
MAX_LOG_INDEX == 9

\* drop: the special timestamp that supersedes all regular timestamps.
DropTimestamp == Timestamp(MAX_MICROTIME, 0, MAX_LOG_INDEX)

\* create: the business cards of the servers to send to.
create_bcards(mgr, servers) ==
    read_all(mgr, DOMAIN mgr, TableLeq,
             LAMBDA bcards, peer, bc :
                 IF bc.server_id \in servers
                 THEN MapSet(bcards, bc.server_id, bc)
                 ELSE bcards,
             EmptyMap)

\* The servers found by drop if it looked in the manager directory alone.
drop_bcards_from_managers(dir, mgr, table_id) ==
    [server_id \in DOMAIN mgr |-> mgr[server_id]]

\* drop: the business cards of all servers that are hosting the table.
drop_bcards(dir, mgr, table_id) ==
    read_all(dir, DOMAIN dir, PairLeq,
             LAMBDA bcards, key, table_bcard :
                 LET bc == read_key(mgr, key[1])
                 IN  IF key[2] = table_id /\ bc # {}
                     THEN MapSet(bcards, Deref(bc).server_id, Deref(bc))
                     ELSE bcards,
             EmptyMap)

\* pmap over bcards: every sub-task installs its disconnect watcher, sends
\* its message (messages is the set of them) and waits for the ack.
fan_out(o, bcards, messages, conn) ==
    [o EXCEPT !.bcards = bcards,
              !.task = [server_id \in DOMAIN bcards |->
                          [peer |-> bcards[server_id].peer,
                           got_ack |-> FALSE,
                           in_time |-> FALSE,   \* (observation)
                           promise |-> {},
                           dw |-> bcards[server_id].peer \notin conn,
                           state |-> "waiting"]],
              !.sent = @ \cup messages,
              !.pc = "pmap"]

\* table_meta_client_t::create up to the waits of its sub-tasks, for a
\* config whose shards have the replicas `servers`: every server gets a
\* fresh member id (10 + its server id here) and the initial Raft state.
create(o, servers, mgr, conn) ==
    LET bcards == create_bcards(mgr, servers)
        raft_state == [member_ids |-> [s \in servers |-> 10 + s],
                       voting_members |-> {10 + s : s \in servers}]
    IN  fan_out(o, bcards,
                {Message(bcards[s].peer, "action_mailbox", o.table_id,
                         CreateTimestamp, FALSE, {raft_state.member_ids[s]},
                         {raft_state}) : s \in DOMAIN bcards},
                conn)

\* table_meta_client_t::drop up to the waits of its sub-tasks.
drop(o, dir, mgr, conn) ==
    LET bcards == drop_bcards(dir, mgr, o.table_id)
        o1 == [o EXCEPT !.scanned = Candidates(dir, mgr, o.table_id)]
    IN  fan_out(o1, bcards,
                {Message(bcards[s].peer, "action_mailbox", o1.table_id,
                         DropTimestamp, TRUE, {}, {}) : s \in DOMAIN bcards},
                conn)

\* The sub-task that counts an ack whatever was pulsed when it woke up.
task_resume_counts_always(o, server_id) ==
    [o EXCEPT !.task[server_id].state = "counted", !.num_acked = @ + 1]

\* A sub-task of create or drop from the wake-up of its wait_interruptible
\* on: the disconnect watcher or the interruptor throw, and the catch
\* swallows it.
task_resume(o, server_id) ==
    IF o.task[server_id].dw \/ o.interruptor
    THEN [o EXCEPT !.task[server_id].state = "caught"]
    ELSE [o EXCEPT !.task[server_id].state = "counted", !.num_acked = @ + 1]

\* table_meta_client_t::list_configs up to the waits of its sub-tasks: it
\* clears configs_out and sends a request to every server it can see.
list_configs(o, mgr, conn) ==
    [o EXCEPT !.configs_out = EmptyMap,
              !.task = [peer \in DOMAIN mgr |->
                          [peer |-> mgr[peer].peer,
                           got_ack |-> FALSE,
                           in_time |-> FALSE,
                           promise |-> {},
                           dw |-> mgr[peer].peer \notin conn,
                           state |-> "waiting"]],
              !.sent = {Message(mgr[peer].peer, "get_config_mailbox",
                                {}, {}, {}, {}, {}) : peer \in DOMAIN mgr},
              !.pc = "pmap"]

\* The sub-task of list_configs whose insert overwrites the configs that
\* are in configs_out already.
list_task_resume_overwrites(o, peer) ==
    IF o.task[peer].promise # {}
    THEN LET maybe_result == Deref(o.task[peer].promise)
         IN  [o EXCEPT !.task[peer].state = "counted",
                       !.merged = Append(@, peer),
                       !.configs_out =
                           [t \in DOMAIN @ \cup DOMAIN maybe_result |->
                               IF t \in DOMAIN maybe_result
                               THEN maybe_result[t] ELSE @[t]]]
    ELSE [o EXCEPT !.task[peer].state = "caught"]

\* A sub-task of list_configs from the wake-up of its wait on: if the
\* promise is ready its reply is inserted in configs_out, which keeps the
\* configs it has already.
list_task_resume(o, peer) ==
    IF o.task[peer].promise # {}
    THEN LET maybe_result == Deref(o.task[peer].promise)
         IN  [o EXCEPT !.task[peer].state = "counted",
                       !.merged = Append(@, peer),
                       !.configs_out =
                           [t \in DOMAIN @ \cup DOMAIN maybe_result |->
                               IF t \in DOMAIN @
                               THEN @[t] ELSE maybe_result[t]]]
    ELSE [o EXCEPT !.task[peer].state = "caught"]

\* list_configs after pmap has returned.
list_configs_join(o) ==
    IF o.interruptor
    THEN Return(o, "interrupted_exc_t")
    ELSE Return(o, "returned")

\* create and drop that do not look at the interruptor after pmap.
fan_out_join_unchecked(o) ==
    IF o.num_acked > 0
    THEN [o EXCEPT !.pc = "wait_mirror", !.waited = TRUE]
    ELSE IF o.bcards # EmptyMap
    THEN Return(o, "maybe")
    ELSE Return(o, "failure")

\* The classification without the wait on the mirror.
fan_out_join_no_wait(o) ==
    IF o.interruptor
    THEN Return(o, "interrupted_exc_t")
    ELSE IF o.num_acked > 0
    THEN Return(o, "success")
    ELSE IF o.bcards # EmptyMap
    THEN Return(o, "maybe")
    ELSE Return(o, "failure")

\* The classification that reports failure whenever nothing was acked.
fan_out_join_failure(o) ==
    IF o.interruptor
    THEN Return(o, "interrupted_exc_t")
    ELSE IF o.num_acked > 0
    THEN [o EXCEPT !.pc = "wait_mirror", !.waited = TRUE]
    ELSE Return(o, "failure")

\* create and drop after pmap has returned, up to the wait on the mirror.
fan_out_join(o) ==
    IF o.interruptor
    THEN Return(o, "interrupted_exc_t")
    ELSE IF o.num_acked > 0
    THEN [o EXCEPT !.pc = "wait_mirror", !.waited = TRUE]
    ELSE IF o.bcards # EmptyMap
    THEN Return(o, "maybe")
    ELSE Return(o, "failure")

\* set_config: find the server (if any) which is acting as leader.
set_config_scan(dir, mgr, table_id) ==
    read_all(dir, DOMAIN dir, PairLeq,
             LAMBDA best, key, table_bcard :
                 scan_visit(best, key, table_bcard, mgr, table_id, TRUE),
             [mailbox |-> {}, timestamp |-> {}])

\* table_meta_client_t::set_config up to its wait for the reply.
set_config(o, dir, mgr, conn) ==
    LET best == set_config_scan(dir, mgr, o.table_id)
        o1 == [o EXCEPT !.scanned = Candidates(dir, mgr, o.table_id)]
    IN  IF best.mailbox = {}
        THEN Return(o1, "failure")
        ELSE send_request(o1, best, "set_config_mailbox", conn)

\* set_config that reports failure when the leader has disconnected.
set_config_resume_failure_on_disconnect(o) ==
    IF o.interruptor
    THEN Return(o, "interrupted_exc_t")
    ELSE IF o.dw
    THEN Return(o, "failure")
    ELSE IF Deref(o.promise) = {}
    THEN Return(o, "maybe")
    ELSE [o EXCEPT !.timestamp = Deref(o.promise),
                   !.pc = "wait_mirror", !.waited = TRUE]

\* set_config from the wake-up of wait_interruptible on, up to the wait on
\* the mirror.
set_config_resume(o) ==
    IF o.interruptor
    THEN Return(o, "interrupted_exc_t")
    ELSE IF o.dw
    THEN Return(o, "maybe")
    ELSE IF Deref(o.promise) = {}
    THEN Return(o, "maybe")
    ELSE [o EXCEPT !.timestamp = Deref(o.promise),
                   !.pc = "wait_mirror", !.waited = TRUE]

\* The predicates, with one for set_config that any mirror satisfies.
satisfied_by_any_mirror(o, m) ==
    CASE o.name = "create" -> m # {}
      [] o.name = "drop" -> m = {}
      [] o.name = "set_config" -> TRUE

\* The predicate each operation passes to run_key_until_satisfied, on the
\* mirror's pointer m to the table's entry.
satisfied(o, m) ==
    CASE o.name = "create" -> m # {}
      [] o.name = "drop" -> m = {}
      [] o.name = "set_config" ->
            IF m = {}
            THEN TRUE
            ELSE \/ supersedes(Deref(m).timestamp, Deref(o.timestamp))
                 \/ Deref(m).name = o.new_name /\ Deref(m).database = 1

\* run_key_until_satisfied when it is called or woken by a change: if the
\* predicate holds of the mirror's entry m it returns, the mirror is flushed
\* and the operation succeeds; otherwise it waits for a change or for its
\* interruptor.
run_key_until_satisfied(o, m) ==
    IF o.pc = "wait_mirror" /\ satisfied(o, m)
    THEN Return(o, "success")
    ELSE o

\* The end of the wait that set_config has, in create and in drop as well.
mirror_wait_interrupted_succeeds(o) ==
    IF o.interruptor
    THEN Return(o, "interrupted_exc_t")
    ELSE Return(o, "success")

\* The wait on the mirror ends with interrupted_exc_t, from the interruptor
\* or from the timer: the catch of each operation.
mirror_wait_interrupted(o) ==
    IF o.interruptor
    THEN Return(o, "interrupted_exc_t")
    ELSE IF o.name = "set_config"
    THEN Return(o, "success")
    ELSE Return(o, "maybe")

\* create is called with a config whose replicas are `servers`; the table
\* id it generates is new to the directory.
CallCreate ==
    /\ op.name = "none"
    /\ connected # {}
    /\ table_meta_directory = EmptyMap
    /\ \E servers \in SUBSET Peers \ {{}} :
          op' = create([NoOp EXCEPT !.name = "create",
                                    !.table_id = ClientTable],
                       servers, table_meta_manager_directory, connected)
    /\ UNCHANGED <<table_meta_manager_directory, connected, directoryVars,
                   connVars, listenerVars>>

CallDrop ==
    /\ op.name = "none"
    /\ connected # {}
    /\ op' = drop([NoOp EXCEPT !.name = "drop", !.table_id = ClientTable],
                  table_meta_directory, table_meta_manager_directory,
                  connected)
    /\ UNCHANGED <<table_meta_manager_directory, connected, directoryVars,
                   connVars, listenerVars>>

\* set_config is called with a config that keeps or changes the name.
CallSetConfig ==
    /\ op.name = "none"
    /\ connected # {}
    /\ \E new_name \in {1, 2} :
          op' = set_config([NoOp EXCEPT !.name = "set_config",
                                        !.table_id = ClientTable,
                                        !.new_name = new_name],
                           table_meta_directory,
                           table_meta_manager_directory, connected)
    /\ UNCHANGED <<table_meta_manager_directory, connected, directoryVars,
                   connVars, listenerVars>>

SetConfigResumes ==
    /\ op.name = "set_config"
    /\ op.pc = "wait_reply"
    /\ op.promise # {} \/ op.dw \/ op.interruptor
    /\ op' = run_key_until_satisfied(
                 set_config_resume(op),
                 read_key(table_metadata_by_id, op.table_id))
    /\ UNCHANGED <<table_meta_manager_directory, connected, directoryVars,
                   connVars, listenerVars>>

\* list_configs is called with a configs_out that holds configs of an
\* earlier call, or none.  It does not read the table directory, which is
\* empty here.
CallListConfigs ==
    /\ op.name = "none"
    /\ connected # {}
    /\ table_meta_directory = EmptyMap
    /\ \E stale \in {EmptyMap, [t \in {2} |-> 0]} :
          op' = list_configs([NoOp EXCEPT !.name = "list_configs",
                                          !.configs_out = stale],
                             table_meta_manager_directory, connected)
    /\ UNCHANGED <<table_meta_manager_directory, connected, directoryVars,
                   connVars, listenerVars>>

\* The reply of a server reaches the mailbox of its sub-task of
\* list_configs: the configs of the tables it hosts (here each server's
\* config of a table is told apart by the server's id).
ListReplyArrives ==
    /\ op.name = "list_configs"
    /\ op.pc = "pmap"
    /\ \E peer \in DOMAIN op.task, hosted \in SUBSET Tables :
          /\ op.task[peer].state = "waiting"
          /\ op.task[peer].promise = {}
          /\ op.task[peer].peer \in connected
          /\ op' = [op EXCEPT !.task[peer].promise =
                                 {[t \in hosted |-> peer]},
                              !.task[peer].got_ack = TRUE,
                              !.task[peer].in_time = ~op.interruptor]
    /\ UNCHANGED <<table_meta_manager_directory, connected, directoryVars,
                   connVars, listenerVars>>

\* The ack of a server reaches the mailbox of its sub-task.
AckArrives ==
    /\ op.name \in {"create", "drop"}
    /\ op.pc = "pmap"
    /\ \E server_id \in DOMAIN op.task :
          /\ op.task[server_id].state = "waiting"
          /\ ~op.task[server_id].got_ack
          /\ op.task[server_id].peer \in connected
          /\ op' = [op EXCEPT !.task[server_id].got_ack = TRUE,
                              !.task[server_id].in_time = ~op.interruptor]
    /\ UNCHANGED <<table_meta_manager_directory, connected, directoryVars,
                   connVars, listenerVars>>

\* A sub-task wakes up from its wait.
TaskResumes ==
    /\ op.pc = "pmap"
    /\ \E server_id \in DOMAIN op.task :
          /\ op.task[server_id].state = "waiting"
          /\ \/ op.task[server_id].got_ack
             \/ op.task[server_id].dw
             \/ op.interruptor
          /\ op' = IF op.name = "list_configs"
                    THEN list_task_resume(op, server_id)
                    ELSE task_resume(op, server_id)
    /\ UNCHANGED <<table_meta_manager_directory, connected, directoryVars,
                   connVars, listenerVars>>

\* pmap returns when every sub-task has ended.
FanOutJoins ==
    /\ op.pc = "pmap"
    /\ \A server_id \in DOMAIN op.task : op.task[server_id].state # "waiting"
    /\ op' = IF op.name = "list_configs"
              THEN list_configs_join(op)
              ELSE run_key_until_satisfied(
                       fan_out_join(op),
                       read_key(table_metadata_by_id, op.table_id))
    /\ UNCHANGED <<table_meta_manager_directory, connected, directoryVars,
                   connVars, listenerVars>>

\* The 10 s timer of the wait on the mirror fires.
Timeout ==
    /\ op.pc = "wait_mirror"
    /\ ~op.timeout
    /\ op' = [op EXCEPT !.timeout = TRUE]
    /\ UNCHANGED <<table_meta_manager_directory, connected, directoryVars,
                   connVars, listenerVars>>

\* The waiting coroutine wakes up after a change of the mirror, its
\* interruptor not pulsed, and finds the predicate satisfied.
MirrorWaitSatisfied ==
    /\ op.pc = "wait_mirror"
    /\ ~op.interruptor
    /\ ~op.timeout
    /\ satisfied(op, read_key(table_metadata_by_id, op.table_id))
    /\ op' = run_key_until_satisfied(
                 op, read_key(table_metadata_by_id, op.table_id))
    /\ UNCHANGED <<table_meta_manager_directory, connected, directoryVars,
                   connVars, listenerVars>>

\* The waiting coroutine wakes up with its interruptor pulsed.
MirrorWaitInterrupted ==
    /\ op.pc = "wait_mirror"
    /\ op.interruptor \/ op.timeout
    /\ op' = mirror_wait_interrupted(op)
    /\ UNCHANGED <<table_meta_manager_directory, connected, directoryVars,
                   connVars, listenerVars>>

\* A peer the operation waits for is disconnected: its disconnect watchers
\* are pulsed and its entries leave the directories.
Disconnect ==
    /\ \E peer \in connected :
          /\ \/ op.pc = "wait_reply" /\ op.best_mailbox = {peer}
             \/ /\ op.pc = "pmap"
                /\ \E server_id \in DOMAIN op.task :
                      /\ op.task[server_id].peer = peer
                      /\ op.task[server_id].state = "waiting"
          /\ connected' = connected \ {peer}
          /\ table_meta_manager_directory' =
                MapErase(table_meta_manager_directory, peer)
          /\ table_meta_directory' =
                MapErase(table_meta_directory, <<peer, ClientTable>>)
          /\ table_metadata_by_id' =
                IF <<peer, ClientTable>> \in DOMAIN table_meta_directory
                THEN on_directory_change(table_metadata_by_id,
                                         <<peer, ClientTable>>, {})
                ELSE table_metadata_by_id
          /\ op' = [op EXCEPT
                      !.dw = @ \/ op.best_mailbox = {peer},
                      !.task = [server_id \in DOMAIN op.task |->
                                  [op.task[server_id] EXCEPT
                                     !.dw = @ \/ op.task[server_id].peer = peer]]]
    /\ UNCHANGED <<dobs, find_out, connVars, listenerVars>>

\* What the servers may do to the directory while the operation waits on
\* the mirror: after create the servers it was sent to advertise the table,
\* after drop servers stop advertising it, after set_config the leader
\* advertises another name or timestamp and servers stop advertising.
WaitDeltas(o, dir, conn) ==
    LET hosts == {key[1] : key \in DOMAIN dir}
        targets == {o.task[s].peer : s \in DOMAIN o.task} \cap conn
        stop == {<<<<peer, o.table_id>>, {}>> : peer \in hosts}
    IN  CASE o.name = "create" ->
               stop \cup
               {<<<<peer, o.table_id>>,
                  {[database |-> 1, name |-> 1, primary_key |-> 1,
                    timestamp |-> CreateTimestamp, is_leader |-> FALSE]}>> :
                   peer \in targets \ hosts}
          [] o.name = "drop" -> stop
          [] o.name = "set_config" ->
               stop \cup
               {<<<<peer, o.table_id>>, {card}>> :
                   peer \in hosts \cap o.best_mailbox,
                   card \in TableCards({1}, {1, 2}, {1}, {TRUE})}

ServerDelta ==
    /\ op.pc = "wait_mirror"
    /\ \E delta \in WaitDeltas(op, table_meta_directory, connected) :
          /\ delta[2] # read_key(table_meta_directory, delta[1])
          /\ table_meta_directory' =
                IF delta[2] = {} THEN MapErase(table_meta_directory, delta[1])
                ELSE MapSet(table_meta_directory, delta[1], Deref(delta[2]))
          /\ table_metadata_by_id' =
                on_directory_change(table_metadata_by_id, delta[1], delta[2])
    /\ UNCHANGED <<clientVars, dobs, find_out, connVars, listenerVars>>

ClientNext ==
    \/ ClusterForms
    \/ CallGetConfig
    \/ CallCreate
    \/ CallDrop
    \/ CallSetConfig
    \/ CallListConfigs
    \/ Interrupt
    \/ ReplyArrives
    \/ GetConfigResumes
    \/ SetConfigResumes
    \/ AckArrives
    \/ ListReplyArrives
    \/ TaskResumes
    \/ FanOutJoins
    \/ Timeout
    \/ MirrorWaitSatisfied
    \/ MirrorWaitInterrupted
    \/ Disconnect
    \/ ServerDelta

\* ---------------------------------------------------------- specifications

Init == ConnInit /\ ListenerInit /\ DirectoryInit /\ ClientInit

vars == <<connVars, listenerVars, metaVars>>

\* One connection, its user, its poller and its peer.
Next == ConnNext

Spec == Init /\ [][Next]_vars

\* Two listeners, their user, the poller and the peers.
SpecListener == Init /\ [][ListenerNext]_vars

\* The (peer, table) directory, its mirror and find().
SpecDirectory == Init /\ [][DirectoryNext]_vars

\* The metadata client, one operation in a cluster of peers.
SpecClient == Init /\ [][ClientNext]_vars

\* ------------------------------------------------------------------ claims

\* A callback frame of the given name is the innermost frame.
InCallback(name) ==
    IF stack = <<>> THEN FALSE
    ELSE stack[Len(stack)].fn = "cb" /\ stack[Len(stack)].pc = name

\* C1: whenever control is with the user, registered_for_writes is true if
\* and only if a write is in progress (begun, neither fulfilled nor ended by
\* on_close) that has observed would-block at least once.
C1_RegisteredIffBlockedWritePending ==
    (UserTurn /\ alive) =>
        (registered_for_writes <=>
            /\ write_mode = "external"
            /\ ~write_was_shut_down
            /\ obs.write_saw_wouldblock)

\* C2: as long as accept_buffer has not been called on an offer made to the
\* buffered-read callback (while the callback runs, and when it has just
\* returned), the peek buffer holds exactly the bytes offered, and read_mode
\* is still buffered.
C2_RejectedOfferKeepsPeekBuffer ==
    (Running /\ alive) =>
        \A i \in 1..Len(stack) :
            (stack[i].fn = "see_if_callback_is_satisfied" /\ ~stack[i].accepted)
                => /\ peek_buffer = stack[i].offer
                   /\ read_mode = "buffered"

\* C2 witness: the callback has returned from a non-empty offer without
\* calling accept_buffer.
C2_Witness ==
    /\ TopIs("see_if_callback_is_satisfied")
    /\ ~stack[Len(stack)].accepted
    /\ Len(stack[Len(stack)].offer) >= 2
    /\ alive

\* C3: the bytes consumed so far (by accept_buffer and by read_external, in
\* the order they were consumed), followed by the bytes waiting in the peek
\* buffer, are exactly the bytes read from the wire so far, in wire order:
\* nothing is skipped, duplicated or reordered.
C3_ConsumedIsWirePrefix ==
    Running => obs.consumed \o peek_buffer = SubSeq(Wire, 1, wire_pos)

\* C3 witness: after an accept_buffer, a read_external was fulfilled partly
\* from the peek buffer and partly from the descriptor.
C3_Witness ==
    /\ InCallback("on_net_conn_read_external")
    /\ obs.read_drained >= 1
    /\ obs.read_syscall_in_op
    /\ Len(obs.consumed) > Len(external_read_buf)
    /\ Len(external_read_buf) = 4

\* C4 as stated: with the wire stream "ABCDEFGH", after a buffered read whose
\* callback was offered all 8 bytes and called accept_buffer(3), a
\* read_external of 4 bytes is fulfilled with "DEFG" without a ::read, and
\* the 1-byte read_external that follows is not fulfilled from what the
\* connection holds: it needs a ::read for one more byte of the wire.
C4_AsStated ==
    /\ obs.scenario \in {"read 4 started", "read 4 done"} =>
          /\ external_read_buf = <<"D", "E", "F", "G">>
          /\ external_read_size = 0
          /\ ~obs.read_syscall_in_op
    /\ (obs.scenario = "read 1 started" /\ TopIs("try_to_read_external_buf"))
          => external_read_size = 1
    /\ obs.scenario = "read 1 done" => obs.read_syscall_in_op

\* C4 amended: in that scenario the read_external of 4 bytes is fulfilled with
\* "DEFG" without a ::read, and so is the 1-byte read_external that follows,
\* with "H", the eighth byte, which was still in the peek buffer.
C4_ExactReadOverBufferedResidue ==
    /\ obs.scenario \in {"read 4 started", "read 4 done"} =>
          /\ external_read_buf = <<"D", "E", "F", "G">>
          /\ external_read_size = 0
          /\ ~obs.read_syscall_in_op
    /\ obs.scenario \in {"read 1 started", "read 1 done"} =>
          /\ external_read_buf = <<"H">>
          /\ external_read_size = 0
          /\ ~obs.read_syscall_in_op
          /\ wire_pos = 8

\* C4 witness: the scenario has run to the end of the 1-byte read.
C4_Witness ==
    /\ obs.scenario = "read 1 done"
    /\ InCallback("on_net_conn_read_external")

C6_SelfDeleteInBufferedCallback ==
    obs.deleted_in_buffered_cb => (uaf = "" /\ ~obs.cb_after_delete)

\* C6 witness: on_event resumes with its deletion flag set, after a deletion
\* made by the callback of a read that the buffered-read callback started.
C6_Witness ==
    /\ obs.deleted_in_buffered_cb
    /\ TopIs("on_event")
    /\ stack[Len(stack)].deleted
    /\ read_mode = "external"

\* C7: the descriptor is closed at most once, only by the destructor, and
\* only with both halves shut down.
C7_ClosedOnceByDestructor ==
    aborted = "" =>
        /\ fd_closed <= 1
        /\ fd_closed = 1 <=> ~alive
        /\ fd_closed = 1 => (read_was_shut_down /\ write_was_shut_down)

\* C7 witness: the connection was deleted from inside a callback.
C7_Witness == fd_closed = 1 /\ stack # <<>>

\* C8: no ::read is issued once read_was_shut_down is set, no ::write once
\* write_was_shut_down is set, and the assertion on a readable event in
\* on_event never fails.
C8_NoIoAfterShutdown ==
    /\ ~obs.read_after_shutdown
    /\ ~obs.write_after_shutdown
    /\ aborted # "on_event: assert(!read_was_shut_down)"

\* C9: a listener whose bind() failed comes out of its constructor defunct,
\* and on a defunct listener set_callback, on_event and the destructor do
\* nothing: the poller is never called, no callback is stored, accept() is
\* never called, nothing is handed to a callback, and the socket is neither
\* shut down nor closed.
C9_DefunctListenerIsInert ==
    \A l \in Listeners :
        /\ lobs[l].bind_failed =>
              listener[l].life # "unconstructed" /\ listener[l].defunct
        /\ listener[l].defunct =>
              /\ lobs[l].bind_failed
              /\ lobs[l].poller_calls = 0
              /\ listener[l].poll_watch = "none"
              /\ ~listener[l].callback
              /\ listener[l].pc = "idle"
              /\ lobs[l].accept_calls = 0
              /\ lobs[l].handed = <<>>
              /\ listener[l].sock_shut_down = 0
              /\ listener[l].sock_closed = 0

\* C9 witness: the second listener on a port in use is defunct, and
\* set_callback, on_event and the destructor have all been called on it.
C9_Witness ==
    \E l, k \in Listeners :
        /\ l # k
        /\ listener[k].port # 0
        /\ ~listener[k].defunct
        /\ listener[l].defunct
        /\ listener[l].life = "destroyed"
        /\ lobs[l].calls = {"set_callback", "on_event", "destructor"}

\* C10: on_event of a working listener calls accept() until it fails with
\* would-block and returns only then; every descriptor accept() returns is
\* handed, in a new connection, to exactly one on_net_listener_accept; an
\* accept() that fails otherwise hands nothing over and leaves the loop
\* running.
C10_AcceptUntilWouldBlock ==
    \A l \in Listeners :
        /\ lobs[l].handed = lobs[l].accepted
        /\ lobs[l].last_accept \in {"ok", "EINTR", "EMFILE"} =>
              listener[l].pc = "accept"
        /\ (listener[l].pc = "idle" /\ lobs[l].events > 0
                /\ ~listener[l].defunct) =>
              lobs[l].last_accept = "EAGAIN"

\* C10 witness: one on_event has accepted two connections, seen a failed
\* accept() in between, and returned on would-block.
C10_Witness ==
    \E l \in Listeners :
        /\ lobs[l].events = 1
        /\ Len(lobs[l].handed) = 2
        /\ lobs[l].accept_errors > 0
        /\ lobs[l].accept_calls = 2 + lobs[l].accept_errors + 1
        /\ listener[l].pc = "idle"
        /\ lobs[l].last_accept = "EAGAIN"

\* The peers that advertise a table in the (peer, table) directory.
Advertisers(table) ==
    {peer \in Peers : <<peer, table>> \in DOMAIN table_meta_directory}

\* C11: after any sequence of directory deltas the mirror has an entry for a
\* table exactly when the entry's witness set is non-empty, and the witness
\* set is the set of peers that advertise the table in the directory.
C11_WitnessesAreAdvertisers ==
    \A table \in Tables :
        /\ table \in DOMAIN table_metadata_by_id <=> Advertisers(table) # {}
        /\ table \in DOMAIN table_metadata_by_id =>
              /\ table_metadata_by_id[table].witnesses # {}
              /\ table_metadata_by_id[table].witnesses = Advertisers(table)

\* C11 witness: one table has lost its last advertiser and its entry, while
\* another table is advertised.
C11_Witness ==
    \E gone, kept \in Tables :
        /\ gone \notin DOMAIN table_metadata_by_id
        /\ dobs.ever_observed[gone] # {}
        /\ kept \in DOMAIN table_metadata_by_id

\* C12 as stated: the timestamp an entry carries is never superseded by a
\* timestamp the table's entry carried earlier, even before the entry was
\* deleted and created again.
C12_AsStated ==
    \A table \in DOMAIN table_metadata_by_id :
        \A earlier \in dobs.ever_carried[table] :
            ~supersedes(earlier, table_metadata_by_id[table].timestamp)

\* C12 (amended): for as long as an entry exists the timestamp it carries is
\* never superseded by one it carried earlier; an entry created again after
\* its witnesses dropped to empty starts from the card that created it.
C12_MonotoneWhileEntryExists ==
    \A table \in DOMAIN table_metadata_by_id :
        \A earlier \in dobs.carried[table] :
            ~supersedes(earlier, table_metadata_by_id[table].timestamp)

\* C12 witness: an entry's timestamp has risen, and a later card with a lower
\* timestamp has not lowered it.
C12_Witness ==
    \E table \in DOMAIN table_metadata_by_id :
        LET seen == dobs.observed[table]
        IN  /\ Cardinality(dobs.carried[table]) = 2
            /\ supersedes(table_metadata_by_id[table].timestamp,
                          seen[Len(seen)].timestamp)

\* Of the cards seen, the first that no other supersedes.
FirstHighest(seen) ==
    CHOOSE i \in 1..Len(seen) :
        /\ \A j \in 1..Len(seen) :
              ~supersedes(seen[j].timestamp, seen[i].timestamp)
        /\ \A j \in 1..(i - 1) :
              supersedes(seen[i].timestamp, seen[j].timestamp)

\* C13 as stated: the database, name, primary key and timestamp of an entry
\* are those of a card with the highest timestamp advertised so far for the
\* table.
C13_AsStated ==
    \A table \in DOMAIN table_metadata_by_id :
        \E card \in dobs.ever_observed[table] :
            /\ \A other \in dobs.ever_observed[table] :
                  ~supersedes(other.timestamp, card.timestamp)
            /\ table_metadata_by_id[table].database = card.database
            /\ table_metadata_by_id[table].name = card.name
            /\ table_metadata_by_id[table].primary_key = card.primary_key
            /\ table_metadata_by_id[table].timestamp = card.timestamp

\* C13 (amended): the database, name and timestamp of an entry are those of
\* the first card with the highest timestamp advertised since the entry was
\* created, and its primary key is that of the card that created it.
C13_CarriesHighestSinceCreation ==
    \A table \in DOMAIN table_metadata_by_id :
        LET seen == dobs.observed[table]
            best == seen[FirstHighest(seen)]
        IN  /\ table_metadata_by_id[table].database = best.database
            /\ table_metadata_by_id[table].name = best.name
            /\ table_metadata_by_id[table].timestamp = best.timestamp
            /\ table_metadata_by_id[table].primary_key = seen[1].primary_key

\* C13 witness: a later card has superseded the one that created the entry
\* and has another primary key.
C13_Witness ==
    \E table \in DOMAIN table_metadata_by_id :
        LET seen == dobs.observed[table]
        IN  /\ FirstHighest(seen) > 1
            /\ seen[FirstHighest(seen)].primary_key # seen[1].primary_key

\* The entries of the mirror that find_out's database and name both match.
Matching ==
    {table \in DOMAIN table_metadata_by_id :
        /\ table_metadata_by_id[table].database = find_out.database
        /\ table_metadata_by_id[table].name = find_out.name}

\* C14: find(database, name) sets count_out to the number of entries whose
\* database and name both match, returns true exactly when that number is
\* one, and then table_id_out is the id of the matching entry.
C14_FindCountsMatches ==
    find_out.called =>
        /\ find_out.count = Cardinality(Matching)
        /\ find_out.ok <=> Cardinality(Matching) = 1
        /\ find_out.ok => Matching = {find_out.table_id}

\* C14 witness: find has returned true with two entries in the mirror, one
\* of which has the name asked for in another database.
C14_Witness ==
    /\ find_out.called
    /\ find_out.ok
    /\ \E other \in DOMAIN table_metadata_by_id \ Matching :
          table_metadata_by_id[other].name = find_out.name

\* C15: when the peer get_config chose disconnects before its reply arrives
\* and the interruptor is not pulsed, get_config returns false: once the
\* coroutine is past its wait with the disconnect watcher pulsed, no reply
\* and no interruption, the call has returned false.
C15_DisconnectReturnsFalse ==
    (/\ op.name = "get_config"
     /\ op.pc # "wait_reply"
     /\ op.dw
     /\ op.promise = {}
     /\ ~op.interruptor)
    => op.pc = "done" /\ op.result = "false"

\* C16: get_config sends its request to exactly one peer: among the peers
\* that advertise the table and have a manager business card, the one with
\* the highest timestamp, the first in iteration order of the directory
\* among equal timestamps; with no such peer it returns false and sends
\* nothing.
C16_RequestGoesToFirstHighest ==
    op.name = "get_config" =>
        IF op.scanned = {}
        THEN op.sent = {} /\ op.pc = "done" /\ op.result = "false"
        ELSE \E c \in op.scanned :
                /\ \A d \in op.scanned :
                      /\ ~supersedes(d.timestamp, c.timestamp)
                      /\ d.timestamp = c.timestamp => c.peer <= d.peer
                /\ op.sent = {[to |-> c.peer, mailbox |-> "get_config_mailbox",
                               table_id |-> {op.table_id}, timestamp |-> {},
                               drop |-> {}, member_id |-> {}, raft_ps |-> {}]}

\* get_config chose peer 2 over peer 1, whose timestamp is lower, and over
\* peer 3, whose timestamp is the same.
C16_Witness ==
    /\ op.name = "get_config"
    /\ op.best_mailbox = {2}
    /\ \E c1, c3 \in op.scanned :
          /\ c1.peer = 1
          /\ c3.peer = 3
          /\ supersedes(Deref(op.best_timestamp), c1.timestamp)
          /\ c3.timestamp = Deref(op.best_timestamp)

\* C17: create and drop return success only if at least one server acked
\* and the mirror was then seen to contain (create) or not to contain (drop)
\* the table before the timeout; and with an ack, no interruption and no
\* timeout they return success: create to three replicas of which two ack
\* and one disconnects has num_acked = 2 and succeeds once the mirror
\* exposes the table.
C17_SuccessNeedsAckAndMirror ==
    op.name \in {"create", "drop"} =>
        /\ op.result = "success" =>
              /\ op.num_acked > 0
              /\ op.waited
              /\ ~op.timeout
              /\ (op.name = "create" =>
                     op.table_id \in DOMAIN table_metadata_by_id)
              /\ (op.name = "drop" =>
                     op.table_id \notin DOMAIN table_metadata_by_id)
        /\ (op.pc = "done" /\ op.num_acked > 0
               /\ ~op.interruptor /\ ~op.timeout) =>
              op.result = "success"
        /\ op.num_acked =
              Cardinality({s \in DOMAIN op.task : op.task[s].state = "counted"})

\* create was sent to three replicas, two acked and one disconnected, and it
\* has returned success with the table in the mirror.
C17_Witness ==
    /\ op.name = "create"
    /\ DOMAIN op.task = {1, 2, 3}
    /\ op.num_acked = 2
    /\ \E s \in DOMAIN op.task :
          op.task[s].state = "caught" /\ op.task[s].dw
    /\ ~op.interruptor
    /\ op.result = "success"
    /\ op.table_id \in DOMAIN table_metadata_by_id

\* C18: when no server acked and the interruptor is not pulsed, create and
\* drop return maybe if at least one peer was targeted (a message was sent)
\* and failure if none was; failure is never returned after a message was
\* sent.
C18_NoAckMaybeOrFailure ==
    op.name \in {"create", "drop"} =>
        /\ (op.pc = "done" /\ op.num_acked = 0 /\ ~op.interruptor) =>
              /\ op.sent # {} => op.result = "maybe"
              /\ op.sent = {} => op.result = "failure"
        /\ op.result = "failure" => op.sent = {}

\* create targeted two servers, both disconnected before acking, and it has
\* returned maybe.
C18_Witness ==
    /\ op.name = "create"
    /\ Cardinality(op.sent) = 2
    /\ \A s \in DOMAIN op.task : op.task[s].state = "caught" /\ op.task[s].dw
    /\ op.num_acked = 0
    /\ ~op.interruptor
    /\ op.result = "maybe"

\* The wait on the mirror of the operation has ended by its timer: the timer
\* fired, the interruptor is not pulsed and the predicate does not hold.
TimedOut ==
    /\ op.waited
    /\ op.pc = "done"
    /\ op.timeout
    /\ ~op.interruptor
    /\ ~satisfied(op, read_key(table_metadata_by_id, op.table_id))

\* C19 as stated: in create, drop and set_config, a wait on the mirror that
\* times out without its predicate becoming true makes the operation return
\* maybe, and an interruption during the wait propagates.
C19_AsStated ==
    op.name \in {"create", "drop", "set_config"} =>
        /\ TimedOut => op.result = "maybe"
        /\ (op.waited /\ op.pc = "done" /\ op.interruptor) =>
              op.result = "interrupted_exc_t"

\* C19: a wait on the mirror that times out without its predicate becoming
\* true makes create and drop return maybe and set_config return success;
\* an interruption during the wait propagates from all three.
C19_TimeoutMaybeButSetConfigSucceeds ==
    op.name \in {"create", "drop", "set_config"} =>
        /\ (TimedOut /\ op.name \in {"create", "drop"}) => op.result = "maybe"
        /\ (TimedOut /\ op.name = "set_config") => op.result = "success"
        /\ (op.waited /\ op.pc = "done" /\ op.interruptor) =>
              op.result = "interrupted_exc_t"

\* set_config has returned after its wait on the mirror timed out.
C19_Witness ==
    /\ op.name = "set_config"
    /\ TimedOut
    /\ op.result = "success"

\* C20: drop sends exactly one message to each server that at the snapshot
\* advertises the table and has a manager business card, and none to any
\* other peer; every message marks the drop, carries no member id and no
\* Raft state, and carries the timestamp that supersedes every regular
\* timestamp.
C20_DropFanOut ==
    op.name = "drop" =>
        /\ op.sent =
              {[to |-> c.peer, mailbox |-> "action_mailbox",
                table_id |-> op.table_id,
                timestamp |-> Timestamp(MAX_MICROTIME, 0, MAX_LOG_INDEX),
                drop |-> TRUE, member_id |-> {}, raft_ps |-> {}] :
                  c \in op.scanned}
        /\ Cardinality(op.sent) = Cardinality({c.peer : c \in op.scanned})
        /\ \A m \in op.sent :
              \A ts \in Timestamps \cup {CreateTimestamp} :
                  supersedes(m.timestamp, ts)

\* drop has just sent to the two servers that advertise the table, and not
\* to the connected server that does not.
C20_Witness ==
    /\ op.name = "drop"
    /\ op.pc = "pmap"
    /\ Cardinality(op.sent) = 2
    /\ \E peer \in DOMAIN table_meta_manager_directory :
          /\ <<peer, op.table_id>> \notin DOMAIN table_meta_directory
          /\ \A m \in op.sent : m.to # peer

\* C21: set_config returns failure and sends nothing when no peer with a
\* manager business card advertises the table as leader; it returns maybe
\* when the chosen leader disconnects before replying and when the reply
\* carries no timestamp; in none of these cases does it wait on the mirror.
C21_SetConfigEarlyReturns ==
    op.name = "set_config" =>
        /\ (\A c \in op.scanned : ~c.is_leader) =>
              /\ op.pc = "done"
              /\ op.result = "failure"
              /\ op.sent = {}
              /\ ~op.waited
        /\ (op.pc = "done" /\ op.dw /\ ~op.interruptor) =>
              op.result = "maybe" /\ ~op.waited
        /\ (op.pc = "done" /\ op.promise = {{}} /\ ~op.interruptor) =>
              op.result = "maybe" /\ ~op.waited
        /\ op.result = "failure" => op.sent = {}

\* The leader set_config chose disconnected before it replied, and
\* set_config has returned maybe.
C21_Witness ==
    /\ op.name = "set_config"
    /\ op.sent # {}
    /\ op.dw
    /\ op.promise = {}
    /\ ~op.interruptor
    /\ op.result = "maybe"

\* The mirror shows what set_config waits for: no entry, a timestamp that
\* supersedes the one of the leader's reply, or the new name and database.
Visible ==
    LET m == read_key(table_metadata_by_id, op.table_id)
    IN  IF m = {}
        THEN TRUE
        ELSE \/ supersedes(Deref(m).timestamp, Deref(op.timestamp))
             \/ Deref(m).name = op.new_name /\ Deref(m).database = 1

\* C22 as stated: after the leader acknowledged with a timestamp,
\* set_config returns success only once the mirror shows no entry, a
\* timestamp that supersedes it, or the name and database of the new config.
C22_AsStated ==
    (op.name = "set_config" /\ op.result = "success") =>
        /\ op.waited
        /\ op.timestamp # {}
        /\ Visible

\* C22: after the leader acknowledged with a timestamp, set_config returns
\* success only once the mirror shows no entry, a timestamp that supersedes
\* it, or the name and database of the new config, or once the 10 s wait
\* has expired.
C22_SuccessOnceVisibleOrTimedOut ==
    (op.name = "set_config" /\ op.result = "success") =>
        /\ op.waited
        /\ op.timestamp # {}
        /\ ~op.timeout => Visible

\* set_config has returned success on the timestamp alone: the mirror shows
\* an entry with another name than the new config's.
C22_Witness ==
    /\ op.name = "set_config"
    /\ op.result = "success"
    /\ ~op.timeout
    /\ op.table_id \in DOMAIN table_metadata_by_id
    /\ table_metadata_by_id[op.table_id].name # op.new_name
    /\ supersedes(table_metadata_by_id[op.table_id].timestamp,
                  Deref(op.timestamp))

\* C23: in list_configs, create and drop a pulse of the interruptor never
\* escapes from a sub-task: nothing is thrown while pmap runs, and what is
\* thrown is thrown with every sub-task terminated; after the join the call
\* throws interrupted_exc_t whenever the interruptor is pulsed, whatever
\* the servers had acked or replied, so it returns no result value.
C23_InterruptionRaisedAfterJoin ==
    op.name \in {"list_configs", "create", "drop"} =>
        /\ op.pc = "pmap" => op.result = ""
        /\ op.result = "interrupted_exc_t" =>
              \A s \in DOMAIN op.task : op.task[s].state # "waiting"
        /\ (op.pc = "done" /\ op.interruptor) =>
              op.result = "interrupted_exc_t"

\* create was sent to two servers at least, every one acked and was
\* counted, the interruptor was pulsed before pmap returned, and create has
\* thrown without waiting on the mirror.
C23_Witness ==
    /\ op.name = "create"
    /\ Cardinality(DOMAIN op.task) >= 2
    /\ \A s \in DOMAIN op.task : op.task[s].state = "counted"
    /\ op.interruptor
    /\ ~op.waited
    /\ op.result = "interrupted_exc_t"

\* C24 as stated: the fan-out of create and drop returns only after every
\* sub-task has terminated, and num_acked at the join is exactly the number
\* of targeted servers whose ack arrived before their disconnect and before
\* the interruptor was pulsed (here with the interruptor never pulsed).
C24_AsStated ==
    (op.name \in {"create", "drop"} /\ op.pc # "pmap" /\ ~op.interruptor) =>
        /\ \A s \in DOMAIN op.task : op.task[s].state # "waiting"
        /\ op.num_acked =
              Cardinality({s \in DOMAIN op.task :
                              op.task[s].got_ack /\ op.task[s].in_time})

\* C24: the fan-out of create and drop returns only after every sub-task
\* has terminated; the disconnect of a peer changes no sub-task of another
\* peer and not num_acked; and num_acked is exactly the number of sub-tasks
\* that resumed from their wait with the ack arrived and neither their
\* peer's disconnect watcher nor the interruptor pulsed, which is at most
\* the number of acks that arrived before the disconnect and the
\* interruption.
C24_CountsAcksSeenAtWakeUp ==
    /\ [](op.name \in {"create", "drop"} =>
            /\ op.pc # "pmap" =>
                  \A s \in DOMAIN op.task : op.task[s].state # "waiting"
            /\ op.num_acked =
                  Cardinality({s \in DOMAIN op.task :
                                  op.task[s].state = "counted"})
            /\ \A s \in DOMAIN op.task :
                  /\ op.task[s].state = "counted" =>
                        /\ op.task[s].got_ack
                        /\ op.task[s].in_time
                        /\ ~op.task[s].dw
                  /\ (op.pc = "done" /\ op.task[s].got_ack
                         /\ ~op.task[s].dw /\ ~op.interruptor) =>
                        op.task[s].state = "counted")
    /\ [][(op.name \in {"create", "drop"} /\ connected' # connected) =>
            /\ op'.num_acked = op.num_acked
            /\ \A s \in DOMAIN op.task :
                  op.task[s].peer \in connected' =>
                      op'.task[s] = op.task[s]]_vars

\* create has joined: the ack of one server arrived in time but the server
\* disconnected before its sub-task resumed, so it was not counted, while
\* the sub-task of another server was.
C24_Witness ==
    /\ op.name = "create"
    /\ op.pc # "pmap"
    /\ ~op.interruptor
    /\ \E s, t \in DOMAIN op.task :
          /\ op.task[s].got_ack
          /\ op.task[s].in_time
          /\ op.task[s].dw
          /\ op.task[s].state = "caught"
          /\ op.task[t].state = "counted"
    /\ op.num_acked = 1

\* C25: when list_configs returns normally, configs_out holds exactly the
\* table ids of the replies that arrived, each with the config of the reply
\* merged first; a server that disconnected without replying contributes
\* nothing and causes no error; nothing is left of what configs_out held
\* before the call.
C25_ListConfigsMergesReplies ==
    (op.name = "list_configs" /\ op.pc = "done" /\ ~op.interruptor) =>
        LET replied == {p \in DOMAIN op.task : op.task[p].promise # {}}
            reply(p) == Deref(op.task[p].promise)
        IN  /\ op.result = "returned"
            /\ {op.merged[i] : i \in 1..Len(op.merged)} = replied
            /\ Len(op.merged) = Cardinality(replied)
            /\ DOMAIN op.configs_out = UNION {DOMAIN reply(p) : p \in replied}
            /\ \A t \in DOMAIN op.configs_out :
                  \E i \in 1..Len(op.merged) :
                      /\ t \in DOMAIN reply(op.merged[i])
                      /\ op.configs_out[t] = reply(op.merged[i])[t]
                      /\ \A j \in 1..(i - 1) :
                            t \notin DOMAIN reply(op.merged[j])

\* list_configs has returned: one server disconnected without replying and
\* two replied with a config of table 1; the reply of server 3 was merged
\* first and its config is the one kept.
C25_Witness ==
    /\ op.name = "list_configs"
    /\ op.result = "returned"
    /\ DOMAIN op.task = {1, 2, 3}
    /\ op.merged = <<3, 1>>
    /\ 1 \in DOMAIN Deref(op.task[1].promise)
    /\ 1 \in DOMAIN Deref(op.task[3].promise)
    /\ op.task[2].dw
    /\ op.task[2].promise = {}
    /\ op.configs_out[1] = 3

\* C26: in on_event with err and without hup, each of shutdown_read and
\* shutdown_write is followed by a check of the deletion flag: when the
\* on_close callback of either deletes the connection, on_event returns
\* without touching a field of the connection, set_me_true_on_delete
\* included.
C26_ErrEventChecksDeletion ==
    uaf \notin {"on_event: read_was_shut_down",
                "on_event: write_was_shut_down",
                "on_event: set_me_true_on_delete = NULL"}

\* C27: for a registered connection the poller's registration matches the
\* halves that are open: with the read half shut down the interest mask
\* does not include readable, with the write half shut down it does not
\* include writable, and with both shut down the descriptor has been
\* forgotten exactly once; the poller is never asked to adjust or forget a
\* descriptor it does not watch.
C27_RegistrationMatchesOpenHalves ==
    (Running /\ poll_watch # "none") =>
        /\ read_was_shut_down => "in" \notin poll_mask
        /\ write_was_shut_down => "out" \notin poll_mask
        /\ (read_was_shut_down /\ write_was_shut_down) =>
              poll_watch = "forgotten" /\ obs.poll_forgets = 1
        /\ ~obs.poll_misuse

\* C28: for a registered connection the poller has not forgotten,
\* registered_for_writes is true if and only if the interest mask registered
\* with the poller includes writable.
C28_FlagIffWritableInterest ==
    (Running /\ alive /\ poll_watch = "watched") =>
        (registered_for_writes <=> "out" \in poll_mask)

\* C29: when a buffered-read callback calls accept_buffer and then starts a
\* new read before returning, see_if_callback_is_satisfied takes the offer
\* as accepted once the callback has returned: it returns true, so that its
\* caller returns too without offering the buffer again and without
\* reading more data, and it leaves read_mode, in_read_buffered_cb and the
\* peek buffer as the nested read left them.
C29_NestedReadAfterAccept ==
    [][(/\ TopIs("see_if_callback_is_satisfied")
        /\ stack[Len(stack)].accepted /\ stack[Len(stack)].nested
        /\ ~stack[Len(stack)].deleted)
       => /\ read_mode' = read_mode
          /\ in_read_buffered_cb' = in_read_buffered_cb
          /\ peek_buffer' = peek_buffer
          /\ wire_pos' = wire_pos
          /\ aborted' = "" /\ uaf' = ""
          /\ stack' = SubSeq(stack, 1, Len(stack) - 2)]_vars

\* The callback of an accepted offer has returned with a read it started
\* still pending and bytes left in the peek buffer.
C29_Witness ==
    /\ TopIs("see_if_callback_is_satisfied")
    /\ stack[Len(stack)].accepted /\ stack[Len(stack)].nested
    /\ ~stack[Len(stack)].deleted
    /\ read_mode = "buffered"
    /\ peek_buffer # <<>>

\* C30: on_close is delivered at most once per direction, only in the step
\* that sets that direction's shut-down latch, and only to the callback of
\* the operation active in that direction; the step that latches one
\* direction neither latches the other direction nor delivers on_close to
\* it; and once on_close has been delivered for a direction no completion
\* callback (on_net_conn_read_external, on_net_conn_read_buffered,
\* on_net_conn_write_external) of that direction is invoked.
C30_OnCloseOncePerDirection ==
    /\ [](/\ obs.on_close_read <= 1 /\ obs.on_close_write <= 1
          /\ ~obs.on_close_misdirected
          /\ ~obs.completion_after_close)
    /\ [][aborted' = "" =>
            /\ obs'.on_close_read # obs.on_close_read =>
                  /\ ~read_was_shut_down /\ read_was_shut_down'
            /\ obs'.on_close_write # obs.on_close_write =>
                  /\ ~write_was_shut_down /\ write_was_shut_down'
            /\ read_was_shut_down' # read_was_shut_down =>
                  /\ write_was_shut_down' = write_was_shut_down
                  /\ obs'.on_close_write = obs.on_close_write
            /\ write_was_shut_down' # write_was_shut_down =>
                  /\ read_was_shut_down' = read_was_shut_down
                  /\ obs'.on_close_read = obs.on_close_read]_vars

\* Both the reader and the writer have been told of the close, and the
\* connection is still running.
C30_Witness ==
    /\ Running /\ alive
    /\ obs.on_close_read = 1 /\ obs.on_close_write = 1
    /\ read_was_shut_down /\ write_was_shut_down

====
